---- MODULE Spec2Model ----
(***************************************************************************)
(* Model of the aquarium simulator's computational core:                   *)
(*   - DimensionFinder (reverse calculator: target volume -> dimensions)   *)
(*   - GlassRecommender (thickness step function, label table, detailed    *)
(*     recommendation)                                                     *)
(*   - EquipmentStrategy, EquipmentStrategyFactory, EquipmentRecommender   *)
(*   - TankCalculator (volume, unit conversion, displacement)              *)
(*   - AquariumApp (event handlers, debounce timer, control states)        *)
(*                                                                         *)
(* Numbers.  The JavaScript code computes in IEEE doubles.  For            *)
(* DimensionFinder the model computes the same expressions exactly, over   *)
(* decimals with a fixed number of fraction digits split into 32-bit       *)
(* pieces: liters carry nine fraction digits and gallons fifteen, which    *)
(* makes every product with the conversion constants 2.54^3/1000 and       *)
(* 0.264172 exact.  For TankCalculator the model computes in binary64      *)
(* itself, every operation rounded to the nearest double.                  *)
(***************************************************************************)
EXTENDS Integers, Sequences, FiniteSets, TLC

VARIABLES method, pc, targetVolumeGallons, constraints, maxResults, results,
          returned, depth, panelSize, thickness, args, reply,
          app, dom, timers, log

vars == <<method, pc, targetVolumeGallons, constraints, maxResults, results,
          returned, depth, panelSize, thickness, args, reply,
          app, dom, timers, log>>

finderVars == <<targetVolumeGallons, constraints, maxResults, results, returned>>
glassVars == <<depth, panelSize, thickness>>
\* arguments and returned value of a recommender call
callVars == <<args, reply>>
\* the AquariumApp object, the page's controls, the pending timers of the
\* event loop, and a record of what the handlers did
appVars == <<app, dom, timers, log>>

----------------------------------------------------------------------------
(* Bounds of the model *)

\* largest per-axis maximum a caller supplies in the model
MaxSupplied == 20
\* longest tank in the model, just above 1.5 x the narrower width
MaxTankLength == 19
\* largest side of a triple classified by getAspectRatio
MaxSide == 11
\* largest maximum handed to getDimensionRange
MaxRange == 62
\* largest explicitly requested result count
MaxRequested == 2
\* longest list handed directly to getUniqueResults
MaxListLen == 3
\* ranges of the glass-thickness inputs
MinDepth == 10
MaxDepth == 38
MinPanel == 46
MaxPanel == 62

----------------------------------------------------------------------------
(* Exact decimal arithmetic.  A non-negative decimal with fifteen fraction
   digits is the record [w, hi, lo] standing for w + hi/10^9 + lo/10^15,
   with 0 <= hi < 10^9 and 0 <= lo < 10^6. *)

E3 == 1000
E6 == 1000000
E8 == 100000000
E9 == 1000000000

DecOfNat(n) == [w |-> n, hi |-> 0, lo |-> 0]

\* 10 * x
DecTimes10(x) ==
    LET lo10 == x.lo * 10
        hi10 == (x.hi % E8) * 10 + (lo10 \div E6)
    IN  [w |-> x.w * 10 + (x.hi \div E8), hi |-> hi10, lo |-> lo10 % E6]

DecLess(x, y) ==
    \/ x.w < y.w
    \/ x.w = y.w /\ x.hi < y.hi
    \/ x.w = y.w /\ x.hi = y.hi /\ x.lo < y.lo

DecLeq(x, y) == ~DecLess(y, x)

\* x - y for x >= y
DecMinus(x, y) ==
    LET bl == IF x.lo < y.lo THEN 1 ELSE 0
        lo == x.lo - y.lo + bl * E6
        bh == IF x.hi - bl < y.hi THEN 1 ELSE 0
        hi == x.hi - bl - y.hi + bh * E9
    IN  [w |-> x.w - bh - y.w, hi |-> hi, lo |-> lo]

\* Math.abs(x - y)
DecAbsDiff(x, y) == IF DecLess(x, y) THEN DecMinus(y, x) ELSE DecMinus(x, y)

\* x / d for a positive whole d, rounded to the nearest whole number, the
\* larger one on a tie
DecRoundDiv(x, d) == (2 * x.w + (IF x.hi >= 5 * E8 THEN 1 ELSE 0) + d) \div (2 * d)

----------------------------------------------------------------------------
(* DimensionFinder *)

minDimension == 10
maxDimension == 120
\* this.tolerancePercent * 100
toleranceTimes100 == 10
defaultMaxHeight == 60
minHeight == 12
defaultMaxResults == 10

RECURSIVE getDimensionRangeNoMiddleStep(_, _)
\* mutant: the step of 4 between 24 and 48 is missing
getDimensionRangeNoMiddleStep(min, max) ==
    IF min <= max
    THEN <<min>> \o getDimensionRangeNoMiddleStep(
             IF min < 24 THEN min + 2 ELSE min + 6,
             max)
    ELSE <<>>

\* mutant: the step changes one value late, above 24 and above 48
RECURSIVE getDimensionRangeLateSteps(_, _)
getDimensionRangeLateSteps(min, max) ==
    IF min <= max
    THEN <<min>> \o getDimensionRangeLateSteps(
             IF min <= 24 THEN min + 2 ELSE IF min <= 48 THEN min + 4 ELSE min + 6,
             max)
    ELSE <<>>

RECURSIVE getDimensionRange(_, _)
getDimensionRange(min, max) ==
    IF min <= max
    THEN <<min>> \o getDimensionRange(
             IF min < 24 THEN min + 2 ELSE IF min < 48 THEN min + 4 ELSE min + 6,
             max)
    ELSE <<>>

\* (length * 2.54) * (width * 2.54) * (height * 2.54) / 1000
\*   = length * width * height * 0.016387064 liters,
\* as base-1000 limbs <<v1, .., v5>> of the count of 10^-9 liters, v1 lowest
calculateVolume(length, width, height) ==
    LET cubicInches == length * width * height
        r0 == cubicInches * 64
        r1 == cubicInches * 387 + (r0 \div E3)
        r2 == cubicInches * 16 + (r1 \div E3)
    IN  << r0 % E3, r1 % E3, r2 % E3, (r2 \div E3) % E3, r2 \div E6 >>

\* volume * 0.264172, exact
toGallons(v) ==
    LET s1 == v[1] * 172
        s2 == v[2] * 172 + v[1] * 264 + (s1 \div E3)
        s3 == v[3] * 172 + v[2] * 264 + (s2 \div E3)
        s4 == v[4] * 172 + v[3] * 264 + (s3 \div E3)
        s5 == v[5] * 172 + v[4] * 264 + (s4 \div E3)
        s6 == v[5] * 264 + (s5 \div E3)
    IN  [ w |-> s6,
          hi |-> (s5 % E3) * E6 + (s4 % E3) * E3 + (s3 % E3),
          lo |-> (s2 % E3) * E3 + (s1 % E3) ]

\* Math.abs(volumeGallons - targetVolumeGallons)
Difference(target, length, width, height) ==
    DecAbsDiff(toGallons(calculateVolume(length, width, height)), DecOfNat(target))

\* percentDifference * targetVolumeGallons, where
\* percentDifference = (difference / targetVolumeGallons) * 100
PercentTimesTarget(target, length, width, height) ==
    DecTimes10(DecTimes10(Difference(target, length, width, height)))

\* mutant: Math.abs is missing, so that a volume below the target has a
\* negative percentDifference and passes
WithinToleranceSigned(target, length, width, height) ==
    \/ DecLeq(toGallons(calculateVolume(length, width, height)), DecOfNat(target))
    \/ DecLeq(PercentTimesTarget(target, length, width, height),
              DecOfNat(toleranceTimes100 * target))

\* mutant: the tolerance fraction is compared without the factor 100
WithinToleranceFraction(target, length, width, height) ==
    DecLeq(DecTimes10(PercentTimesTarget(target, length, width, height)),
           DecOfNat(target))

\* percentDifference <= this.tolerancePercent * 100
WithinTolerance(target, length, width, height) ==
    DecLeq(PercentTimesTarget(target, length, width, height),
           DecOfNat(toleranceTimes100 * target))

\* volumeGallons.toFixed(1), as a count of tenths
volumeGallonsFixed(length, width, height) ==
    DecRoundDiv(DecTimes10(toGallons(calculateVolume(length, width, height))), 1)

\* percentDifference.toFixed(1), as a count of tenths
percentDifferenceFixed(target, length, width, height) ==
    DecRoundDiv(DecTimes10(PercentTimesTarget(target, length, width, height)), target)

\* mutant: the Tall rule is tried before the Wide and Deep rules
getAspectRatioTallFirst(length, width, height) ==
    IF 5 * height > length * 4 THEN "Tall"
    ELSE IF length > width * 2 THEN "Wide"
    ELSE IF 2 * width > length * 3 THEN "Deep"
    ELSE IF length > height * 2 THEN "Long"
    ELSE "Standard"

\* the label of the returned text; the ratio in brackets after it is left out
getAspectRatio(length, width, height) ==
    IF length > width * 2 THEN "Wide"
    ELSE IF 2 * width > length * 3 THEN "Deep"
    ELSE IF 5 * height > length * 4 THEN "Tall"
    ELSE IF length > height * 2 THEN "Long"
    ELSE "Standard"

\* the record pushed for one surviving triple; volumeGallons and
\* percentDifference are the toFixed(1) strings, held as tenths
Candidate(target, length, width, height) ==
    [ width |-> width,
      length |-> length,
      height |-> height,
      volumeGallons |-> volumeGallonsFixed(length, width, height),
      percentDifference |-> percentDifferenceFixed(target, length, width, height),
      aspectRatio |-> getAspectRatio(length, width, height),
      footprint |-> length * width,
      depth |-> height ]

MaxWidthOf(c) ==
    IF "maxWidth" \in DOMAIN c /\ c["maxWidth"] # 0 THEN c["maxWidth"] ELSE maxDimension
MaxLengthOf(c) ==
    IF "maxLength" \in DOMAIN c /\ c["maxLength"] # 0 THEN c["maxLength"] ELSE maxDimension
MaxHeightOf(c) ==
    IF "maxHeight" \in DOMAIN c /\ c["maxHeight"] # 0 THEN c["maxHeight"] ELSE defaultMaxHeight

widthRange(c) == getDimensionRange(minDimension, MaxWidthOf(c))
lengthRange(c) == getDimensionRange(minDimension, MaxLengthOf(c))
heightRange(c) == getDimensionRange(minHeight, MaxHeightOf(c))

\* the triples <<width, length, height>> in the order the three nested loops
\* visit them: width outermost, height innermost
Enumeration(c) ==
    LET W == widthRange(c)
        L == lengthRange(c)
        H == heightRange(c)
        nL == Len(L)
        nH == Len(H)
    IN  [i \in 1..(Len(W) * nL * nH) |->
            << W[((i - 1) \div (nL * nH)) + 1],
               L[(((i - 1) \div nH) % nL) + 1],
               H[((i - 1) % nH) + 1] >>]

\* the results array after the loops
Survivors(target, c) ==
    LET kept == SelectSeq(Enumeration(c),
                          LAMBDA t : WithinTolerance(target, t[2], t[1], t[3]))
    IN  [i \in 1..Len(kept) |-> Candidate(target, kept[i][2], kept[i][1], kept[i][3])]

RECURSIVE SortByKeysDescending(_, _)
\* mutant: the comparator's operands are swapped
SortByKeysDescending(s, keys) ==
    IF keys = {} THEN <<>>
    ELSE LET k == CHOOSE x \in keys : \A y \in keys : x >= y
         IN  SelectSeq(s, LAMBDA r : r.percentDifference = k)
                 \o SortByKeysDescending(s, keys \ {k})

RECURSIVE SortByKeys(_, _)
\* the elements of s whose percentDifference is in keys, by ascending
\* percentDifference, elements with equal percentDifference in their order in s
SortByKeys(s, keys) ==
    IF keys = {} THEN <<>>
    ELSE LET k == CHOOSE x \in keys : \A y \in keys : x <= y
         IN  SelectSeq(s, LAMBDA r : r.percentDifference = k)
                 \o SortByKeys(s, keys \ {k})

\* results.sort((a, b) => parseFloat(a.percentDifference) - parseFloat(b.percentDifference))
\* Array.prototype.sort is stable
sortByPercentDifference(s) ==
    SortByKeys(s, {s[i].percentDifference : i \in 1..Len(s)})

\* `${result.width}x${result.length}x${result.height}`
KeyOf(result) == <<result.width, result.length, result.height>>

RECURSIVE UniqueFromForgetSeen(_, _, _, _, _)
\* mutant: the key is never added to seen
UniqueFromForgetSeen(rs, i, unique, seen, limit) ==
    IF i > Len(rs) THEN unique
    ELSE IF KeyOf(rs[i]) \notin seen
         THEN LET pushed == Append(unique, rs[i])
              IN  IF Len(pushed) >= limit THEN pushed
                  ELSE UniqueFromForgetSeen(rs, i + 1, pushed, seen, limit)
         ELSE UniqueFromForgetSeen(rs, i + 1, unique, seen, limit)

RECURSIVE UniqueFrom(_, _, _, _, _)
UniqueFrom(rs, i, unique, seen, limit) ==
    IF i > Len(rs) THEN unique
    ELSE IF KeyOf(rs[i]) \notin seen
         THEN LET pushed == Append(unique, rs[i])
              IN  IF Len(pushed) >= limit THEN pushed
                  ELSE UniqueFrom(rs, i + 1, pushed, seen \cup {KeyOf(rs[i])}, limit)
         ELSE UniqueFrom(rs, i + 1, unique, seen, limit)

getUniqueResults(rs, limit) == UniqueFrom(rs, 1, <<>>, {}, limit)

\* the results array after the sort
SortedResults(target, c) == sortByPercentDifference(Survivors(target, c))

findDimensions(target, c, limit) ==
    getUniqueResults(SortedResults(target, c), limit)

----------------------------------------------------------------------------
(* GlassRecommender *)

maxThickness == 12

\* mutant: the second span step starts at 60 instead of above 60
getThicknessInclusive60(d, p) ==
    LET baseThickness ==
            IF d <= 12 THEN 3
            ELSE IF d <= 15 THEN 5
            ELSE IF d <= 24 THEN 6
            ELSE IF d <= 30 THEN 8
            ELSE IF d <= 36 THEN 10
            ELSE 12
        afterFirst == IF p > 48 THEN baseThickness + 2 ELSE baseThickness
        afterSecond == IF p >= 60 THEN afterFirst + 2 ELSE afterFirst
    IN  IF afterSecond < 12 THEN afterSecond ELSE 12

\* mutant: the final cap is missing
getThicknessUncapped(d, p) ==
    LET baseThickness ==
            IF d <= 12 THEN 3
            ELSE IF d <= 15 THEN 5
            ELSE IF d <= 24 THEN 6
            ELSE IF d <= 30 THEN 8
            ELSE IF d <= 36 THEN 10
            ELSE 12
        afterFirst == IF p > 48 THEN baseThickness + 2 ELSE baseThickness
    IN  IF p > 60 THEN afterFirst + 2 ELSE afterFirst

getThicknessForDimensions(d, p) ==
    LET baseThickness ==
            IF d <= 12 THEN 3
            ELSE IF d <= 15 THEN 5
            ELSE IF d <= 24 THEN 6
            ELSE IF d <= 30 THEN 8
            ELSE IF d <= 36 THEN 10
            ELSE 12
        afterFirst == IF p > 48 THEN baseThickness + 2 ELSE baseThickness
        afterSecond == IF p > 60 THEN afterFirst + 2 ELSE afterFirst
    IN  IF afterSecond < maxThickness THEN afterSecond ELSE maxThickness

\* Number.POSITIVE_INFINITY as a table bound: larger than every number the
\* model compares with it
Infinity == 2147483647

Larger(a, b) == IF a >= b THEN a ELSE b

\* Array.prototype.find, given for each element of the array whether it
\* passes the test: the index of the first element that passes, 0 when no
\* element passes
FindIndex(passes) ==
    IF \E i \in DOMAIN passes : passes[i]
    THEN CHOOSE i \in DOMAIN passes : passes[i] /\ \A j \in 1..(i - 1) : ~passes[j]
    ELSE 0

GlassRecommender_recommendations ==
    << [maxDepth |-> 12, maxVolume |-> 20, thickness |-> 3,
        description |-> "3mm (for nano tanks only)"],
       [maxDepth |-> 15, maxVolume |-> 40, thickness |-> 5,
        description |-> "5mm (small tanks)"],
       [maxDepth |-> 24, maxVolume |-> 100, thickness |-> 6,
        description |-> "6mm (small-medium tanks)"],
       [maxDepth |-> 30, maxVolume |-> 200, thickness |-> 8,
        description |-> "8mm (medium tanks)"],
       [maxDepth |-> 36, maxVolume |-> 400, thickness |-> 10,
        description |-> "10mm (large tanks)"],
       [maxDepth |-> 48, maxVolume |-> Infinity, thickness |-> 12,
        description |-> "12mm+ (extra large tanks)"] >>

GlassRecommender_getRecommendation(length, width, height) ==
    LET maxPanelDimension == Larger(length, width)
        computed == getThicknessForDimensions(height, maxPanelDimension)
        recommendedThickness ==
            IF maxPanelDimension > 60 THEN Larger(computed, 10) ELSE computed
        recs == GlassRecommender_recommendations
        thicknessRec == FindIndex([i \in 1..Len(recs) |->
                recs[i].thickness = recommendedThickness])
    IN  IF thicknessRec # 0
        THEN recs[thicknessRec].description
        ELSE recs[Len(recs)].description

professionalNote ==
    "Consider professional consultation for tanks over 36\" deep or panels over 5' long."
bracingNote == "Ensure proper bracing and frame support for optimal safety."

baseConsiderations ==
    << "Always use tempered or laminated glass for safety",
       "Consider professional installation for larger tanks",
       "Regular inspection of seals and supports recommended" >>
panelConsideration == "Extra reinforcement recommended for panels over 4 feet long"

\* mutant: a span of exactly 60 already needs attention
requiresSpecialAttentionFrom60(length, width, height) ==
    LET maxPanelDimension == Larger(length, width)
    IN  height > 36 \/ maxPanelDimension >= 60

requiresSpecialAttention(length, width, height) ==
    LET maxPanelDimension == Larger(length, width)
    IN  height > 36 \/ maxPanelDimension > 60

\* mutant: the bracing tier looks at the depth only
getDetailedRecommendationDepthOnly(length, width, height) ==
    LET maxPanelDimension == Larger(length, width)
    IN  [thickness |-> GlassRecommender_getRecommendation(length, width, height),
         safetyNote |->
            IF height > 36 \/ maxPanelDimension > 60 THEN professionalNote
            ELSE IF height > 24 THEN bracingNote
            ELSE "",
         considerations |->
            IF maxPanelDimension > 48
            THEN Append(baseConsiderations, panelConsideration)
            ELSE baseConsiderations]

getDetailedRecommendation(length, width, height) ==
    LET maxPanelDimension == Larger(length, width)
    IN  [thickness |-> GlassRecommender_getRecommendation(length, width, height),
         safetyNote |->
            IF height > 36 \/ maxPanelDimension > 60 THEN professionalNote
            ELSE IF height > 24 \/ maxPanelDimension > 48 THEN bracingNote
            ELSE "",
         considerations |->
            IF maxPanelDimension > 48
            THEN Append(baseConsiderations, panelConsideration)
            ELSE baseConsiderations]


----------------------------------------------------------------------------
(* JavaScript values of the equipment code.  A number is an exact fraction
   n/d with d > 0; the other values carry their type only, or their text *)

Num(n, d) == [t |-> "number", n |-> n, d |-> d]
Whole(n) == Num(n, 1)
Str(s) == [t |-> "string", s |-> s]
Undefined == [t |-> "undefined"]
Null == [t |-> "null"]
NaN == [t |-> "NaN"]
\* a surface area object as calculateSurfaceArea builds it: topSqFt is
\* topSqIn / 144
SurfaceArea(topSqIn) == [t |-> "object", topSqFt |-> Num(topSqIn, 144)]

\* params[i] of a rest-parameter array, i counted from 0
At(params, i) == IF i + 1 \in DOMAIN params THEN params[i + 1] ELSE Undefined

\* ToNumber: null is 0; undefined is NaN; every text of the rule tables
\* holds letters, so a string is NaN
ToNumber(v) ==
    IF v.t = "number" THEN v
    ELSE IF v.t = "null" THEN Whole(0)
    ELSE NaN

\* ToBoolean
Truthy(v) ==
    IF v.t = "number" THEN v.n # 0
    ELSE IF v.t = "string" THEN v.s # ""
    ELSE v.t = "object"

\* mutant: the comparison excludes the bound itself
LessOrEqualStrict(a, b) ==
    LET x == ToNumber(a)
        y == ToNumber(b)
    IN  x.t = "number" /\ y.t = "number" /\
        (y.n = Infinity \/ x.n * y.d < y.n * x.d)

\* a <= b, a < b, a > b: false when either side is NaN
LessOrEqual(a, b) ==
    LET x == ToNumber(a)
        y == ToNumber(b)
    IN  x.t = "number" /\ y.t = "number" /\
        (y.n = Infinity \/ x.n * y.d <= y.n * x.d)
LessThan(a, b) ==
    LET x == ToNumber(a)
        y == ToNumber(b)
    IN  x.t = "number" /\ y.t = "number" /\ x.n * y.d < y.n * x.d
GreaterThan(a, b) == LessThan(b, a)

\* a * b and (a + b) / 2 of numbers; NaN when an operand is NaN
Times(a, b) ==
    LET x == ToNumber(a)
        y == ToNumber(b)
    IN  IF x.t = "number" /\ y.t = "number" THEN Num(x.n * y.n, x.d * y.d) ELSE NaN
Midpoint(a, b) ==
    LET x == ToNumber(a)
        y == ToNumber(b)
    IN  IF x.t = "number" /\ y.t = "number"
        THEN Num(x.n * y.d + y.n * x.d, 2 * x.d * y.d)
        ELSE NaN

\* surfaceArea?.topSqFt || 0
TopSqFtOrZero(surfaceArea) ==
    IF surfaceArea.t = "object" /\ Truthy(surfaceArea.topSqFt)
    THEN surfaceArea.topSqFt
    ELSE Whole(0)

----------------------------------------------------------------------------
(* EquipmentStrategyFactory: the rule tables *)

filterRecommendations ==
    << [maxVolume |-> 20, recommendation |-> "10-20 GPH canister or small HOB filter"],
       [maxVolume |-> 40, recommendation |-> "20-40 GPH canister or medium HOB filter"],
       [maxVolume |-> 75, recommendation |-> "40-75 GPH canister filter"],
       [maxVolume |-> 125, recommendation |-> "75-125 GPH canister filter"],
       [maxVolume |-> 200, recommendation |-> "125-200 GPH canister filter"],
       [maxVolume |-> Infinity, recommendation |-> "200+ GPH canister filter or sump system"] >>

spongeFilter == "5-10 GPH sponge filter ideal for shallow tanks with small surface area"
skimmerSuffix == " + surface skimmer for large surface area"
powerheadSuffix ==
    " - consider adding powerhead for better circulation in tall/deep tanks"

\* mutant: the heater table without its unbounded band
heaterRecommendationsNoCatchAll ==
    << [maxVolume |-> 10, recommendation |-> "50-100W submersible heater"],
       [maxVolume |-> 20, recommendation |-> "100-150W submersible heater"],
       [maxVolume |-> 40, recommendation |-> "150-200W submersible heater"],
       [maxVolume |-> 75, recommendation |-> "200-300W submersible heater"],
       [maxVolume |-> 125, recommendation |-> "300-400W submersible heater"],
       [maxVolume |-> 200, recommendation |-> "400-600W submersible heater"] >>

heaterRecommendations ==
    << [maxVolume |-> 10, recommendation |-> "50-100W submersible heater"],
       [maxVolume |-> 20, recommendation |-> "100-150W submersible heater"],
       [maxVolume |-> 40, recommendation |-> "150-200W submersible heater"],
       [maxVolume |-> 75, recommendation |-> "200-300W submersible heater"],
       [maxVolume |-> 125, recommendation |-> "300-400W submersible heater"],
       [maxVolume |-> 200, recommendation |-> "400-600W submersible heater"],
       [maxVolume |-> Infinity, recommendation |-> "600W+ submersible or inline heater"] >>

chillerRecommendations ==
    << [maxVolume |-> 20, recommendation |-> "1/10 HP chiller for small tanks in warm climates"],
       [maxVolume |-> 75, recommendation |-> "1/4 HP chiller for medium tanks"],
       [maxVolume |-> 125, recommendation |-> "1/3 HP chiller for large tanks"],
       [maxVolume |-> Infinity, recommendation |-> "1/2 to 1 HP chiller for very large tanks"] >>

uvSterilizerRecommendations ==
    << [maxFlow |-> 100, recommendation |-> "5-9W UV sterilizer"],
       [maxFlow |-> 200, recommendation |-> "11-18W UV sterilizer"],
       [maxFlow |-> 400, recommendation |-> "25-36W UV sterilizer"],
       [maxFlow |-> Infinity, recommendation |-> "55W+ UV sterilizer or multiple units"] >>

airPumpRecommendations ==
    << [maxArea |-> 2, recommendation |-> "10-30 GPH air pump with single airstone"],
       [maxArea |-> 4, recommendation |-> "30-60 GPH air pump with dual airstones"],
       [maxArea |-> Infinity, recommendation |-> "60-100 GPH air pump with manifold system"] >>

thermometerRecommendations ==
    << [maxVolume |-> 20, recommendation |-> "Digital stick thermometer"],
       [maxVolume |-> 75, recommendation |-> "Digital thermometer with external probe"],
       [maxVolume |-> Infinity, recommendation |-> "Digital thermometer with multiple probes"] >>

circulationPumpRecommendations ==
    << [maxVolume |-> 20, recommendation |-> "200-400 GPH powerhead"],
       [maxVolume |-> 55, recommendation |-> "400-800 GPH powerhead"],
       [maxVolume |-> 75, recommendation |-> "800-1200 GPH powerhead or multiple units"],
       [maxVolume |-> Infinity, recommendation |-> "1200+ GPH powerhead or multiple units"] >>

multipleUnitsSuffix == " - consider multiple units for even flow in long tanks"

atoRecommendations ==
    << [maxArea |-> 2, recommendation |-> "1-2 gallon reservoir with small pump"],
       [maxArea |-> 4, recommendation |-> "2-5 gallon reservoir with medium pump"],
       [maxArea |-> Infinity, recommendation |-> "5+ gallon reservoir with large pump"] >>

\* new EquipmentStrategy(type, recommendations, criteriaExtractor): the
\* extractor is the filter's own function, or the default one of the type
EquipmentStrategy(type, recommendations, criteriaExtractor) ==
    [type |-> type, recommendations |-> recommendations,
     criteriaExtractor |-> criteriaExtractor]

createFilterStrategy == EquipmentStrategy("volume", filterRecommendations, "filter")
createHeaterStrategy == EquipmentStrategy("volume", heaterRecommendations, "default")
createChillerStrategy == EquipmentStrategy("volume", chillerRecommendations, "default")
createUVSterilizerStrategy ==
    EquipmentStrategy("flow", uvSterilizerRecommendations, "default")
createAirPumpStrategy ==
    EquipmentStrategy("surfaceArea", airPumpRecommendations, "default")
createThermometerStrategy ==
    EquipmentStrategy("volume", thermometerRecommendations, "default")
createCirculationPumpStrategy ==
    EquipmentStrategy("dimensions", circulationPumpRecommendations, "default")
createATOStrategy == EquipmentStrategy("surfaceArea", atoRecommendations, "default")

----------------------------------------------------------------------------
(* EquipmentStrategy *)

placeholder == "--"

getDefaultExtractor(type, params) ==
    IF type = "volume" THEN At(params, 0)
    ELSE IF type = "surfaceArea" THEN TopSqFtOrZero(At(params, 1))
    ELSE IF type = "flow"
         THEN IF Truthy(At(params, 2)) THEN At(params, 2) ELSE Whole(300)
    ELSE IF type = "dimensions"
         THEN <<At(params, 0), At(params, 3), At(params, 4)>>
    ELSE Whole(0)

\* the extractor handed to the filter strategy: it returns a text
filterExtractor(params) ==
    LET volumeGallons == At(params, 0)
        surfaceArea == At(params, 1)
        recs == filterRecommendations
        found == FindIndex([i \in 1..Len(recs) |->
                LessOrEqual(volumeGallons, Whole(recs[i].maxVolume))])
        rec == IF found # 0 THEN recs[found].recommendation
               ELSE recs[Len(recs)].recommendation
        topAreaFt == TopSqFtOrZero(surfaceArea)
    IN  IF LessThan(topAreaFt, Num(3, 2)) /\ LessThan(volumeGallons, Whole(20))
        THEN Str(spongeFilter)
        ELSE IF GreaterThan(topAreaFt, Whole(6))
        THEN Str(rec \o skimmerSuffix)
        ELSE IF LessThan(topAreaFt, Whole(3)) /\ GreaterThan(volumeGallons, Whole(30))
        THEN Str(rec \o powerheadSuffix)
        ELSE Str(rec)

criteriaExtractor(strategy, params) ==
    IF strategy.criteriaExtractor = "filter"
    THEN filterExtractor(params)
    ELSE getDefaultExtractor(strategy.type, params)

getCriteriaProperty(rec) ==
    IF "maxVolume" \in DOMAIN rec THEN "maxVolume"
    ELSE IF "maxArea" \in DOMAIN rec THEN "maxArea"
    ELSE IF "maxFlow" \in DOMAIN rec THEN "maxFlow"
    ELSE "maxVolume"

\* this.recommendations[this.recommendations.length - 1]?.recommendation || '--'
LastOrPlaceholder(recs) ==
    IF Len(recs) > 0 /\ recs[Len(recs)].recommendation # ""
    THEN recs[Len(recs)].recommendation
    ELSE placeholder

getDimensionsRecommendation(strategy, dimensionsData) ==
    LET volumeGallons == dimensionsData[1]
        length == dimensionsData[2]
        width == dimensionsData[3]
        recs == strategy.recommendations
        found == FindIndex([i \in 1..Len(recs) |->
                LessOrEqual(volumeGallons, Whole(recs[i].maxVolume))])
        baseRec == IF found # 0 THEN recs[found].recommendation
                   ELSE LastOrPlaceholder(recs)
    IN  IF GreaterThan(length, Times(width, Num(3, 2)))
        THEN baseRec \o multipleUnitsSuffix
        ELSE baseRec

\* mutant: no fallback to the last band when no band matches
EquipmentStrategy_getRecommendationNoFallback(strategy, params) ==
    LET criteriaValue == criteriaExtractor(strategy, params)
        recs == strategy.recommendations
    IN  IF strategy.type = "dimensions"
        THEN getDimensionsRecommendation(strategy, criteriaValue)
        ELSE LET found == FindIndex([i \in 1..Len(recs) |->
                LessOrEqual(criteriaValue, Whole(recs[i][getCriteriaProperty(recs[i])]))])
             IN  IF found # 0 THEN recs[found].recommendation
                 ELSE placeholder

EquipmentStrategy_getRecommendation(strategy, params) ==
    LET criteriaValue == criteriaExtractor(strategy, params)
        recs == strategy.recommendations
    IN  IF strategy.type = "dimensions"
        THEN getDimensionsRecommendation(strategy, criteriaValue)
        ELSE LET found == FindIndex([i \in 1..Len(recs) |->
                LessOrEqual(criteriaValue, Whole(recs[i][getCriteriaProperty(recs[i])]))])
             IN  IF found # 0 THEN recs[found].recommendation
                 ELSE LastOrPlaceholder(recs)

----------------------------------------------------------------------------
(* EquipmentRecommender *)

strategies ==
    [filter |-> createFilterStrategy,
     heater |-> createHeaterStrategy,
     chiller |-> createChillerStrategy,
     uvSterilizer |-> createUVSterilizerStrategy,
     airPump |-> createAirPumpStrategy,
     thermometer |-> createThermometerStrategy,
     circulationPump |-> createCirculationPumpStrategy,
     ato |-> createATOStrategy]

\* property names every object literal inherits from Object.prototype: the
\* lookup this.strategies[name] finds a function or object under them, which
\* is truthy and has no getRecommendation method
ObjectPrototypeKeys ==
    {"constructor", "toString", "toLocaleString", "valueOf", "hasOwnProperty",
     "isPrototypeOf", "propertyIsEnumerable", "__proto__"}

\* the outcome of a call: a returned value or a thrown error
Return(value) == [threw |-> FALSE, value |-> value]
Throw(error) == [threw |-> TRUE, value |-> error]

EquipmentRecommender_getRecommendation(equipmentType, params) ==
    IF equipmentType \in DOMAIN strategies
    THEN Return(EquipmentStrategy_getRecommendation(strategies[equipmentType], params))
    ELSE IF equipmentType \in ObjectPrototypeKeys
    THEN Throw("TypeError")
    ELSE Return(placeholder)

getFilterRecommendation(volumeGallons, surfaceArea) ==
    EquipmentRecommender_getRecommendation("filter", <<volumeGallons, surfaceArea>>)

getHeaterRecommendation(volumeGallons) ==
    EquipmentRecommender_getRecommendation("heater", <<volumeGallons>>)

getChillerRecommendation(volumeGallons) ==
    EquipmentRecommender_getRecommendation("chiller", <<volumeGallons>>)

getUVSterilizerRecommendation(filterFlow) ==
    EquipmentRecommender_getRecommendation("uvSterilizer",
        <<Whole(0), Null, IF Truthy(filterFlow) THEN filterFlow ELSE Whole(300)>>)

getAirPumpRecommendation(surfaceArea) ==
    EquipmentRecommender_getRecommendation("airPump", <<Whole(0), surfaceArea>>)

getThermometerRecommendation(volumeGallons) ==
    EquipmentRecommender_getRecommendation("thermometer", <<volumeGallons>>)

getCirculationPumpRecommendation(volumeGallons, length, width) ==
    EquipmentRecommender_getRecommendation("circulationPump",
        <<volumeGallons, Null, length, width>>)

getATORcommendation(surfaceArea) ==
    EquipmentRecommender_getRecommendation("ato", <<Whole(0), surfaceArea>>)

estimateFilterFlow(volumeGallons) ==
    LET minFlow == Times(volumeGallons, Whole(3))
        maxFlow == Times(volumeGallons, Whole(5))
    IN  Midpoint(minFlow, maxFlow)

getAllRecommendations(length, width, height, volumeGallons, surfaceArea) ==
    LET filterFlow == estimateFilterFlow(volumeGallons)
    IN  [filter |-> getFilterRecommendation(volumeGallons, surfaceArea).value,
         heater |-> getHeaterRecommendation(volumeGallons).value,
         chiller |-> getChillerRecommendation(volumeGallons).value,
         uvSterilizer |-> getUVSterilizerRecommendation(filterFlow).value,
         airPump |-> getAirPumpRecommendation(surfaceArea).value,
         thermometer |-> getThermometerRecommendation(volumeGallons).value,
         circulationPump |->
            getCirculationPumpRecommendation(volumeGallons, length, width).value,
         ato |-> getATORcommendation(surfaceArea).value]

----------------------------------------------------------------------------
(* Inputs *)

Targets == {7, 20, 62}

ConstraintKeys == {"maxWidth", "maxLength", "maxHeight"}

\* a supplied maximum: zero, one below every axis minimum, one on the grid
SuppliedMaxima == {0, 9, MaxSupplied}

\* the constraints objects: any subset of the keys may be present
Constraints == UNION {[D -> SuppliedMaxima] : D \in SUBSET ConstraintKeys}

\* an omitted maxResults argument is bound to the default
RequestedCounts == (0..MaxRequested) \cup {defaultMaxResults}

NoConstraints == [k \in {} |-> 0]

SampleResults ==
    [width : {10, 12}, length : {10}, height : {12}, percentDifference : {0, 1}]

RECURSIVE SeqsUpTo(_, _)
SeqsUpTo(S, n) ==
    IF n = 0 THEN {<<>>}
    ELSE LET shorter == SeqsUpTo(S, n - 1)
         IN  shorter \cup {Append(s, x) : s \in {t \in shorter : Len(t) = n - 1}, x \in S}

ResultLists == SeqsUpTo(SampleResults, MaxListLen)

----------------------------------------------------------------------------
(* DimensionFinder as a state machine: the caller picks a method and its
   arguments, the call returns *)

GlassIdle == depth = 0 /\ panelSize = 0 /\ thickness = 0

NoArgs == [k \in {} |-> 0]
NoReply == ""
CallIdle == args = NoArgs /\ reply = NoReply
\* no page is loaded
NoApp == [k \in {} |-> 0]
AppIdle == app = NoApp /\ dom = NoApp /\ timers = {} /\ log = NoApp

InitFind ==
    /\ method = "findDimensions"
    /\ pc = "start"
    /\ targetVolumeGallons \in Targets
    /\ constraints \in Constraints
    /\ maxResults \in RequestedCounts
    /\ results = <<>>
    /\ returned = <<>>
    /\ GlassIdle
    /\ CallIdle
    /\ AppIdle

InitUnique ==
    /\ method = "getUniqueResults"
    /\ pc = "start"
    /\ targetVolumeGallons = 0
    /\ constraints = NoConstraints
    /\ maxResults \in RequestedCounts
    /\ results \in ResultLists
    /\ returned = <<>>
    /\ GlassIdle
    /\ CallIdle
    /\ AppIdle

Init == InitFind \/ InitUnique

FindDimensions ==
    /\ pc = "start"
    /\ method = "findDimensions"
    /\ LET sorted == SortedResults(targetVolumeGallons, constraints)
       IN  /\ results' = sorted
           /\ returned' = getUniqueResults(sorted, maxResults)
    /\ pc' = "done"
    /\ UNCHANGED <<method, targetVolumeGallons, constraints, maxResults>>
    /\ UNCHANGED glassVars
    /\ UNCHANGED callVars
    /\ UNCHANGED appVars

GetUniqueResults ==
    /\ pc = "start"
    /\ method = "getUniqueResults"
    /\ returned' = getUniqueResults(results, maxResults)
    /\ pc' = "done"
    /\ UNCHANGED <<method, targetVolumeGallons, constraints, maxResults, results>>
    /\ UNCHANGED glassVars
    /\ UNCHANGED callVars
    /\ UNCHANGED appVars

Next == FindDimensions \/ GetUniqueResults

Spec == Init /\ [][Next]_vars

----------------------------------------------------------------------------
(* GlassRecommender.getThicknessForDimensions as a state machine: every step
   is one call with freshly chosen arguments *)

Depths == MinDepth..MaxDepth
PanelSizes == MinPanel..MaxPanel

InitGlass ==
    /\ method = "getThicknessForDimensions"
    /\ pc = "start"
    /\ targetVolumeGallons = 0
    /\ constraints = NoConstraints
    /\ maxResults = 0
    /\ results = <<>>
    /\ returned = <<>>
    /\ GlassIdle
    /\ CallIdle
    /\ AppIdle

GetThicknessForDimensions ==
    /\ \E d \in Depths, p \in PanelSizes :
          /\ depth' = d
          /\ panelSize' = p
          /\ thickness' = getThicknessForDimensions(d, p)
    /\ pc' = "done"
    /\ UNCHANGED method
    /\ UNCHANGED finderVars
    /\ UNCHANGED callVars
    /\ UNCHANGED appVars

NextGlass == GetThicknessForDimensions

SpecGlass == InitGlass /\ [][NextGlass]_vars

----------------------------------------------------------------------------
(* GlassRecommender.getRecommendation and getDetailedRecommendation as a
   state machine: one call of either method with freshly chosen arguments;
   the recommender keeps no state between calls *)

Lengths == PanelSizes
Widths == {10, 50, 61}
Heights == Depths

InitLabel ==
    /\ method = "GlassRecommender"
    /\ pc = "start"
    /\ targetVolumeGallons = 0
    /\ constraints = NoConstraints
    /\ maxResults = 0
    /\ results = <<>>
    /\ returned = <<>>
    /\ GlassIdle
    /\ CallIdle
    /\ AppIdle

GetRecommendation ==
    /\ pc = "start"
    /\ \E length \in Lengths, width \in Widths, height \in Heights :
          /\ args' = [length |-> length, width |-> width, height |-> height]
          /\ reply' = GlassRecommender_getRecommendation(length, width, height)
    /\ method' = "getRecommendation"
    /\ pc' = "done"
    /\ UNCHANGED finderVars
    /\ UNCHANGED glassVars
    /\ UNCHANGED appVars

GetDetailedRecommendation ==
    /\ pc = "start"
    /\ \E length \in Lengths, width \in Widths, height \in Heights :
          /\ args' = [length |-> length, width |-> width, height |-> height]
          /\ reply' = getDetailedRecommendation(length, width, height)
    /\ method' = "getDetailedRecommendation"
    /\ pc' = "done"
    /\ UNCHANGED finderVars
    /\ UNCHANGED glassVars
    /\ UNCHANGED appVars

RequiresSpecialAttention ==
    /\ pc = "start"
    /\ \E length \in Lengths, width \in Widths, height \in Heights :
          /\ args' = [length |-> length, width |-> width, height |-> height]
          /\ reply' = requiresSpecialAttention(length, width, height)
    /\ method' = "requiresSpecialAttention"
    /\ pc' = "done"
    /\ UNCHANGED finderVars
    /\ UNCHANGED glassVars
    /\ UNCHANGED appVars

NextLabel ==
    GetRecommendation \/ GetDetailedRecommendation \/ RequiresSpecialAttention

SpecLabel == InitLabel /\ [][NextLabel]_vars

----------------------------------------------------------------------------
(* EquipmentRecommender as a state machine: one call of one of its methods
   with freshly chosen arguments; the recommender keeps no state between
   calls *)

\* volumes in gallons: zero, both sides of every table bound and of the
\* filter rules' 20 and 30, and of the flow bounds 100, 200 and 400 divided
\* by four
VolumeSteps ==
    {0, 10, 20, 25, 30, 40, 50, 55, 75, 100, 125, 200}
Volumes ==
    {Whole(v) : v \in VolumeSteps} \cup {Whole(v + 1) : v \in VolumeSteps}
        \cup {Num(2 * v - 1, 2) : v \in VolumeSteps \ {0}}

\* top areas in square inches: both sides of 1.5, 2, 3, 4 and 6 square feet
TopSquareInches ==
    {0, 215, 216, 217, 287, 288, 289, 431, 432, 433, 575, 576, 577, 720,
     863, 864, 865}
SurfaceAreas == {SurfaceArea(a) : a \in TopSquareInches} \cup {Null, Undefined}

\* tank footprints: length against 1.5 x width from both sides
TankLengths == {Whole(12), Whole(MaxTankLength - 1), Whole(MaxTankLength)}
TankWidths == {Whole(12), Whole(24)}
TankHeights == {Whole(12)}

Flows == {Whole(0), Whole(100), Whole(101), Whole(200), Whole(201),
          Whole(400), Whole(401)}

EquipmentTypes ==
    DOMAIN strategies \cup {"skimmer", "", "toString", "constructor"}

InitEquipment ==
    /\ method = "EquipmentRecommender"
    /\ pc = "start"
    /\ targetVolumeGallons = 0
    /\ constraints = NoConstraints
    /\ maxResults = 0
    /\ results = <<>>
    /\ returned = <<>>
    /\ GlassIdle
    /\ CallIdle
    /\ AppIdle

\* what a call leaves behind: its arguments and its outcome
Called(name, arguments, outcome) ==
    /\ method' = name
    /\ args' = arguments
    /\ reply' = outcome.value
    /\ pc' = IF outcome.threw THEN "threw" ELSE "done"
    /\ UNCHANGED finderVars
    /\ UNCHANGED glassVars
    /\ UNCHANGED appVars

EquipmentGetRecommendation ==
    /\ pc = "start"
    /\ \E equipmentType \in EquipmentTypes, volumeGallons \in Volumes,
          surfaceArea \in SurfaceAreas :
           Called("EquipmentRecommender.getRecommendation",
                  [equipmentType |-> equipmentType,
                   params |-> <<volumeGallons, surfaceArea>>],
                  EquipmentRecommender_getRecommendation(equipmentType,
                      <<volumeGallons, surfaceArea>>))

GetFilterRecommendation ==
    /\ pc = "start"
    /\ \E volumeGallons \in Volumes, surfaceArea \in SurfaceAreas :
           Called("getFilterRecommendation",
                  [volumeGallons |-> volumeGallons, surfaceArea |-> surfaceArea],
                  getFilterRecommendation(volumeGallons, surfaceArea))

GetHeaterRecommendation ==
    /\ pc = "start"
    /\ \E volumeGallons \in Volumes :
           Called("getHeaterRecommendation", [volumeGallons |-> volumeGallons],
                  getHeaterRecommendation(volumeGallons))

GetChillerRecommendation ==
    /\ pc = "start"
    /\ \E volumeGallons \in Volumes :
           Called("getChillerRecommendation", [volumeGallons |-> volumeGallons],
                  getChillerRecommendation(volumeGallons))

GetUVSterilizerRecommendation ==
    /\ pc = "start"
    /\ \E filterFlow \in Flows :
           Called("getUVSterilizerRecommendation", [filterFlow |-> filterFlow],
                  getUVSterilizerRecommendation(filterFlow))

GetAirPumpRecommendation ==
    /\ pc = "start"
    /\ \E surfaceArea \in SurfaceAreas :
           Called("getAirPumpRecommendation", [surfaceArea |-> surfaceArea],
                  getAirPumpRecommendation(surfaceArea))

GetThermometerRecommendation ==
    /\ pc = "start"
    /\ \E volumeGallons \in Volumes :
           Called("getThermometerRecommendation", [volumeGallons |-> volumeGallons],
                  getThermometerRecommendation(volumeGallons))

GetCirculationPumpRecommendation ==
    /\ pc = "start"
    /\ \E volumeGallons \in Volumes, length \in TankLengths, width \in TankWidths :
           Called("getCirculationPumpRecommendation",
                  [volumeGallons |-> volumeGallons, length |-> length, width |-> width],
                  getCirculationPumpRecommendation(volumeGallons, length, width))

GetATORcommendation ==
    /\ pc = "start"
    /\ \E surfaceArea \in SurfaceAreas :
           Called("getATORcommendation", [surfaceArea |-> surfaceArea],
                  getATORcommendation(surfaceArea))

GetAllRecommendations ==
    /\ pc = "start"
    /\ \E length \in TankLengths, width \in TankWidths, height \in TankHeights,
          volumeGallons \in Volumes, surfaceArea \in SurfaceAreas :
           Called("getAllRecommendations",
                  [length |-> length, width |-> width, height |-> height,
                   volumeGallons |-> volumeGallons, surfaceArea |-> surfaceArea],
                  Return(getAllRecommendations(length, width, height,
                                               volumeGallons, surfaceArea)))

NextEquipment ==
    \/ EquipmentGetRecommendation
    \/ GetFilterRecommendation
    \/ GetHeaterRecommendation
    \/ GetChillerRecommendation
    \/ GetUVSterilizerRecommendation
    \/ GetAirPumpRecommendation
    \/ GetThermometerRecommendation
    \/ GetCirculationPumpRecommendation
    \/ GetATORcommendation
    \/ GetAllRecommendations

SpecEquipment == InitEquipment /\ [][NextEquipment]_vars

----------------------------------------------------------------------------
(* DimensionFinder.getAspectRatio and getDimensionRange as a state machine:
   one call of either method with freshly chosen arguments *)

Sides == 1..MaxSide
\* range starts: below, at and above the step changes at 24 and 48
RangeStarts == {10, 12, 23, 24, 46, 48, 49}
RangeEnds == 0..MaxRange

InitHelpers ==
    /\ method = "DimensionFinder"
    /\ pc = "start"
    /\ targetVolumeGallons = 0
    /\ constraints = NoConstraints
    /\ maxResults = 0
    /\ results = <<>>
    /\ returned = <<>>
    /\ GlassIdle
    /\ CallIdle
    /\ AppIdle

GetAspectRatio ==
    /\ pc = "start"
    /\ \E length \in Sides, width \in Sides, height \in Sides :
          /\ args' = [length |-> length, width |-> width, height |-> height]
          /\ reply' = getAspectRatio(length, width, height)
    /\ method' = "getAspectRatio"
    /\ pc' = "done"
    /\ UNCHANGED finderVars
    /\ UNCHANGED glassVars
    /\ UNCHANGED appVars

GetDimensionRange ==
    /\ pc = "start"
    /\ \E min \in RangeStarts, max \in RangeEnds :
          /\ args' = [min |-> min, max |-> max]
          /\ reply' = getDimensionRange(min, max)
    /\ method' = "getDimensionRange"
    /\ pc' = "done"
    /\ UNCHANGED finderVars
    /\ UNCHANGED glassVars
    /\ UNCHANGED appVars

NextHelpers == GetAspectRatio \/ GetDimensionRange

SpecHelpers == InitHelpers /\ [][NextHelpers]_vars

----------------------------------------------------------------------------
(* Properties of DimensionFinder *)

FindDone == pc = "done" /\ method = "findDimensions"
UniqueDone == pc = "done" /\ method = "getUniqueResults"

IndexPairs(s) == {p \in (1..Len(s)) \X (1..Len(s)) : p[1] < p[2]}

\* the exact volume in gallons of a returned candidate, from its own fields
VolumeOf(r) == toGallons(calculateVolume(r.length, r.width, r.height))

\* the exact distance of a candidate's volume from the target
DeviationOf(r) == DecAbsDiff(VolumeOf(r), DecOfNat(targetVolumeGallons))

\* C1: every candidate findDimensions returns has a volume, computed from its
\* width, length and height, between 90% and 110% of the target volume
C1_WithinTolerance ==
    FindDone =>
        \A i \in 1..Len(returned) :
            /\ DecLeq(DecOfNat(9 * targetVolumeGallons), DecTimes10(VolumeOf(returned[i])))
            /\ DecLeq(DecTimes10(VolumeOf(returned[i])), DecOfNat(11 * targetVolumeGallons))

\* a call has returned a candidate that is more than 5% off the target
C1_Witness ==
    /\ FindDone
    /\ \E i \in 1..Len(returned) : returned[i].percentDifference > 50

\* C2: the list findDimensions returns is no longer than maxResults
C2_AtMostMaxResults == FindDone => Len(returned) <= maxResults

\* C3: no two returned candidates have the same (width, length, height), and
\* every returned candidate is the first one with its triple in the sorted list
C3_NoDuplicateTriples ==
    pc = "done" =>
        /\ \A p \in IndexPairs(returned) : KeyOf(returned[p[1]]) # KeyOf(returned[p[2]])
        /\ \A i \in 1..Len(returned) :
              \E j \in 1..Len(results) :
                  /\ results[j] = returned[i]
                  /\ \A k \in 1..(j - 1) : KeyOf(results[k]) # KeyOf(results[j])

\* a later entry with an already seen triple was dropped before the limit
\* was reached
C3_Witness ==
    /\ pc = "done"
    /\ Len(returned) >= 1
    /\ Len(returned) < maxResults
    /\ \E p \in IndexPairs(results) :
          /\ KeyOf(results[p[1]]) = KeyOf(results[p[2]])
          /\ results[p[1]] # results[p[2]]
          /\ \E i \in 1..Len(returned) : returned[i] = results[p[1]]
          /\ \A i \in 1..Len(returned) : returned[i] # results[p[2]]

\* a is visited before b by the nested loops: width, then length, then height
EnumeratedBefore(a, b) ==
    \/ a.width < b.width
    \/ a.width = b.width /\ a.length < b.length
    \/ a.width = b.width /\ a.length = b.length /\ a.height < b.height

\* C4: the returned list is ordered by non-decreasing reported
\* percentDifference, candidates with equal percentDifference in enumeration
\* order
C4_SortedStable ==
    FindDone =>
        \A p \in IndexPairs(returned) :
            LET a == returned[p[1]]
                b == returned[p[2]]
            IN  /\ a.percentDifference <= b.percentDifference
                /\ a.percentDifference = b.percentDifference => EnumeratedBefore(a, b)

\* a returned list with a tie and with two different reported deviations
C4_Witness ==
    /\ FindDone
    /\ \E p \in IndexPairs(returned) :
          returned[p[1]].percentDifference = returned[p[2]].percentDifference
    /\ \E p \in IndexPairs(returned) :
          returned[p[1]].percentDifference < returned[p[2]].percentDifference

\* C5: the first returned candidate has the smallest exact deviation of all
\* enumerated grid triples, and no returned candidate is exactly closer to the
\* target than one listed before it
C5_ClosestFirstExact ==
    (FindDone /\ Len(returned) >= 1) =>
        /\ LET grid == Enumeration(constraints)
           IN  \A n \in 1..Len(grid) :
                   DecLeq(DeviationOf(returned[1]),
                          Difference(targetVolumeGallons, grid[n][2], grid[n][1], grid[n][3]))
        /\ \A p \in IndexPairs(returned) :
               ~DecLess(DeviationOf(returned[p[2]]), DeviationOf(returned[p[1]]))

DimsOf(r) == {r.width, r.length, r.height}

DefaultCall ==
    /\ FindDone
    /\ targetVolumeGallons = 20
    /\ constraints = NoConstraints
    /\ maxResults = defaultMaxResults

\* C6 as stated: for target 20 with default constraints the results include
\* the 30 x 12 x 12 triple (here in any orientation)
C6_Includes30x12x12 ==
    DefaultCall =>
        \E i \in 1..Len(returned) :
            /\ DimsOf(returned[i]) = {30, 12}
            /\ returned[i].width * returned[i].length * returned[i].height = 30 * 12 * 12

\* C6 amended: for target 20 with default constraints the ten results are
\* triples of 4608 cubic inches, reported as 19.9 gallons and 0.3 percent off,
\* and none of them has a dimension of 30, which is not a grid value
C6_TenResultsNone30 ==
    DefaultCall =>
        /\ Len(returned) = 10
        /\ \A i \in 1..Len(returned) :
              /\ 30 \notin DimsOf(returned[i])
              /\ returned[i].width * returned[i].length * returned[i].height = 4608
              /\ returned[i].volumeGallons = 199
              /\ returned[i].percentDifference = 3
        /\ \A n \in 1..Len(widthRange(constraints)) : widthRange(constraints)[n] # 30
        /\ \A n \in 1..Len(lengthRange(constraints)) : lengthRange(constraints)[n] # 30
        /\ \A n \in 1..Len(heightRange(constraints)) : heightRange(constraints)[n] # 30

\* the default call for 20 gallons has returned, with 12 x 32 x 12 in the list
C6_Witness ==
    /\ DefaultCall
    /\ \E i \in 1..Len(returned) :
          returned[i].width = 12 /\ returned[i].length = 32 /\ returned[i].height = 12

\* the maximum the caller asked for on one axis: the supplied value, or the
\* default when the constraints object has no such key
RequestedMax(c, key, default) == IF key \in DOMAIN c THEN c[key] ELSE default

\* C7: every returned candidate lies within the axis bounds, 10 (12 for
\* height) up to the supplied maximum or, when none is supplied, the default
C7_WithinAxisBounds ==
    FindDone =>
        \A i \in 1..Len(returned) :
            /\ 10 <= returned[i].width
            /\ returned[i].width <= RequestedMax(constraints, "maxWidth", 120)
            /\ 10 <= returned[i].length
            /\ returned[i].length <= RequestedMax(constraints, "maxLength", 120)
            /\ 12 <= returned[i].height
            /\ returned[i].height <= RequestedMax(constraints, "maxHeight", 60)

Elems(s) == {s[i] : i \in 1..Len(s)}

\* some triple of the three axis ranges has a volume within 10% of the target
SomeGridTripleWithin ==
    \E w \in Elems(widthRange(constraints)) :
        \E l \in Elems(lengthRange(constraints)) :
            \E h \in Elems(heightRange(constraints)) :
                LET g10 == DecTimes10(toGallons(calculateVolume(l, w, h)))
                IN  /\ DecLeq(DecOfNat(9 * targetVolumeGallons), g10)
                    /\ DecLeq(g10, DecOfNat(11 * targetVolumeGallons))

\* C8: the list a call of findDimensions returns is empty exactly when no
\* triple of the enumerated grid is within tolerance
C8_ReturnsEmptyIffNoneWithin ==
    FindDone => ((returned = <<>>) <=> ~SomeGridTripleWithin)

\* a call has returned the empty list because a supplied maximum lies below
\* the axis minimum, so that the axis range is empty
C8_Witness ==
    /\ FindDone
    /\ returned = <<>>
    /\ "maxLength" \in DOMAIN constraints
    /\ constraints["maxLength"] > 0
    /\ constraints["maxLength"] < minDimension
    /\ lengthRange(constraints) = <<>>

----------------------------------------------------------------------------
(* Properties of GlassRecommender.getThicknessForDimensions *)

GlassDone == pc = "done" /\ method = "getThicknessForDimensions"

\* the depth table of the claim: <<largest depth, base thickness>>
DepthTable == << <<12, 3>>, <<15, 5>>, <<24, 6>>, <<30, 8>>, <<36, 10>> >>

TableBase(d) ==
    IF \E n \in 1..Len(DepthTable) : d <= DepthTable[n][1]
    THEN LET n == CHOOSE m \in 1..Len(DepthTable) :
                      /\ d <= DepthTable[m][1]
                      /\ \A k \in 1..(m - 1) : d > DepthTable[k][1]
         IN  DepthTable[n][2]
    ELSE 12

SpanPenalty(p) == IF p > 60 THEN 4 ELSE IF p > 48 THEN 2 ELSE 0

Smaller(a, b) == IF a <= b THEN a ELSE b

\* C9: the thickness is min(base + penalty, 12), base from the depth table,
\* penalty 2 for a span in (48, 60] and 4 for a span above 60
C9_ThicknessFormula ==
    GlassDone => thickness = Smaller(TableBase(depth) + SpanPenalty(panelSize), 12)

\* a call with a span over 60 whose result carries both penalties uncapped
C9_Witness ==
    /\ GlassDone
    /\ panelSize > 60
    /\ depth <= 12
    /\ thickness = 7

\* C10: from one call to the next the thickness does not decrease when the
\* depth grows with the span fixed, nor when the span grows with the depth
\* fixed, and it never exceeds 12
C10_MonotoneAndCapped ==
    [][ /\ (GlassDone /\ depth' >= depth /\ panelSize' = panelSize)
            => thickness' >= thickness
        /\ (GlassDone /\ panelSize' >= panelSize /\ depth' = depth)
            => thickness' >= thickness
        /\ thickness' <= 12 ]_vars

\* a call whose uncapped sum would be 14 has returned the table maximum
C10_Witness ==
    /\ GlassDone
    /\ depth > 30
    /\ panelSize > 60
    /\ thickness = 12

----------------------------------------------------------------------------
(* Properties of the GlassRecommender label table and detailed
   recommendation *)

LabelDone == pc = "done" /\ method = "getRecommendation"
DetailDone == pc = "done" /\ method = "getDetailedRecommendation"

Span == Larger(args.length, args.width)

\* C11: the thickness computed by getThicknessForDimensions(height,
\* max(length, width)) is the thickness of some row of the recommendations
\* table, and getRecommendation returns that row's description
C11_LabelOfComputedThickness ==
    LabelDone =>
        \E i \in 1..Len(GlassRecommender_recommendations) :
            /\ GlassRecommender_recommendations[i].thickness
                  = getThicknessForDimensions(args.height, Span)
            /\ reply = GlassRecommender_recommendations[i].description

\* C12: the safety note is the professional-consultation text exactly when
\* span > 60 or depth > 36, the bracing text exactly when that does not hold
\* and span > 48 or depth > 24, and empty otherwise; the considerations list
\* holds the three fixed items and exactly one more when span > 48
C12_SafetyTiers ==
    DetailDone =>
        LET professional == Span > 60 \/ args.height > 36
            bracing == ~professional /\ (Span > 48 \/ args.height > 24)
        IN  /\ (reply.safetyNote = professionalNote) <=> professional
            /\ (reply.safetyNote = bracingNote) <=> bracing
            /\ (reply.safetyNote = "") <=> (~professional /\ ~bracing)
            /\ Len(reply.considerations) >= 1
            /\ Len(reply.considerations) = (IF Span > 48 THEN 4 ELSE 3)
            /\ \A i \in 1..3 : reply.considerations[i] = baseConsiderations[i]

\* a shallow tank whose span alone puts it in the bracing tier, with the
\* extra consideration
C12_Witness ==
    /\ DetailDone
    /\ args.height <= 24
    /\ Span > 48
    /\ Span <= 60
    /\ reply.safetyNote = bracingNote
    /\ Len(reply.considerations) = 4

----------------------------------------------------------------------------
(* Properties of the equipment recommendations *)

AllDone == pc = "done" /\ method = "getAllRecommendations"
GenericCalled == method = "EquipmentRecommender.getRecommendation"

Categories ==
    {"filter", "heater", "chiller", "uvSterilizer", "airPump", "thermometer",
     "circulationPump", "ato"}

TableOf(category) == strategies[category].recommendations
TableTexts(recs) == {recs[i].recommendation : i \in 1..Len(recs)}
Suffixes == {skimmerSuffix, powerheadSuffix, multipleUnitsSuffix}

\* the bound of a band: its one field besides the text
BoundOf(rec) == rec[CHOOSE k \in DOMAIN rec : k # "recommendation"]

\* the text of the first band, in table order, whose bound is at least the
\* value n/d
FirstBandText(recs, value) ==
    LET fits == {i \in 1..Len(recs) :
                    BoundOf(recs[i]) = Infinity \/ value.n <= BoundOf(recs[i]) * value.d}
        first == CHOOSE i \in fits : \A j \in fits : i <= j
    IN  recs[first].recommendation

\* the top area in square feet the caller supplied, 0 when it supplied none
AreaOf(surfaceArea) ==
    IF surfaceArea.t = "object" THEN surfaceArea.topSqFt ELSE Whole(0)

\* C13: each of the eight entries getAllRecommendations returns is a text of
\* that category's rule table, possibly with a suffix, and never '--'
C13_NeverPlaceholder ==
    AllDone =>
        \A category \in Categories :
            /\ reply[category] # "--"
            /\ \E text \in TableTexts(TableOf(category)) :
                  \/ reply[category] = text
                  \/ \E suffix \in Suffixes : reply[category] = text \o suffix

\* all recommendations for a tank above every finite band, with no surface
\* area supplied
C13_Witness ==
    /\ AllDone
    /\ args.volumeGallons = Whole(201)
    /\ args.surfaceArea.t = "null"
    /\ reply.heater = "600W+ submersible or inline heater"

\* C14: every rule table has strictly ascending bounds and ends with an
\* unbounded band, and a lookup with a numeric criterion value finds a band
C14_TablesExhaustive ==
    /\ \A category \in Categories :
          LET recs == TableOf(category)
          IN  /\ Len(recs) >= 1
              /\ \A p \in IndexPairs(recs) : BoundOf(recs[p[1]]) < BoundOf(recs[p[2]])
              /\ BoundOf(recs[Len(recs)]) = Infinity
    /\ (pc = "done" /\ GenericCalled /\ args.equipmentType \in Categories) =>
          LET strategy == strategies[args.equipmentType]
              recs == strategy.recommendations
              criteriaValue ==
                  IF strategy.type = "dimensions"
                  THEN criteriaExtractor(strategy, args.params)[1]
                  ELSE criteriaExtractor(strategy, args.params)
          IN  criteriaValue.t = "number" =>
                  FindIndex([i \in 1..Len(recs) |->
                          LessOrEqual(criteriaValue, Whole(recs[i][getCriteriaProperty(recs[i])]))]) # 0

\* a lookup above every finite bound of its table got the last band's text
C14_Witness ==
    /\ pc = "done"
    /\ GenericCalled
    /\ args.equipmentType = "heater"
    /\ args.params[1] = Whole(201)
    /\ reply = "600W+ submersible or inline heater"

\* the value a single-criterion call looks up, and the table it uses
SingleCriterion ==
    [getHeaterRecommendation |-> "heater",
     getChillerRecommendation |-> "chiller",
     getThermometerRecommendation |-> "thermometer",
     getAirPumpRecommendation |-> "airPump",
     getATORcommendation |-> "ato"]

ObservedValue(category) ==
    IF category \in {"airPump", "ato"}
    THEN AreaOf(args.surfaceArea)
    ELSE args.volumeGallons

\* C15: heater, chiller and thermometer return the text of the first band
\* whose maxVolume is at least the volume, air pump and auto-top-off the text
\* of the first band whose maxArea is at least the top area; the heater for
\* 50 gallons is the 200-300W one
C15_FirstBandInclusive ==
    /\ (pc = "done" /\ method \in DOMAIN SingleCriterion) =>
          LET category == SingleCriterion[method]
          IN  reply = FirstBandText(TableOf(category), ObservedValue(category))
    /\ AllDone =>
          \A m \in DOMAIN SingleCriterion :
              LET category == SingleCriterion[m]
              IN  reply[category] = FirstBandText(TableOf(category), ObservedValue(category))
    /\ (pc = "done" /\ method = "getHeaterRecommendation"
            /\ args.volumeGallons = Whole(50)) =>
          reply = "200-300W submersible heater"

\* a heater lookup exactly at a band's bound stayed in that band
C15_Witness ==
    /\ pc = "done"
    /\ method = "getHeaterRecommendation"
    /\ args.volumeGallons = Whole(75)
    /\ reply = "200-300W submersible heater"

FilterCalled ==
    pc = "done" /\ method \in {"getFilterRecommendation", "getAllRecommendations"}
FilterReply == IF method = "getAllRecommendations" THEN reply.filter ELSE reply

\* C16: with a top area from 3 to 6 square feet the filter recommendation
\* is the text of the first filter band whose maxVolume is at least the volume
C16_FilterBaseBand ==
    (FilterCalled /\ args.surfaceArea.t = "object"
        /\ LessOrEqual(Whole(3), args.surfaceArea.topSqFt)
        /\ LessOrEqual(args.surfaceArea.topSqFt, Whole(6))) =>
        FilterReply = FirstBandText(filterRecommendations, args.volumeGallons)

\* C17: area < 1.5 and volume < 20 gives the sponge filter text; otherwise
\* area > 6 gives the band text with the skimmer suffix; otherwise area < 3
\* and volume > 30 gives the band text with the powerhead suffix; otherwise
\* the band text alone
C17_FilterRulePrecedence ==
    FilterCalled =>
        LET area == AreaOf(args.surfaceArea)
            volume == args.volumeGallons
            band == FirstBandText(filterRecommendations, volume)
        IN  FilterReply =
                IF 2 * area.n < 3 * area.d /\ volume.n < 20 * volume.d
                THEN spongeFilter
                ELSE IF area.n > 6 * area.d
                THEN band \o skimmerSuffix
                ELSE IF area.n < 3 * area.d /\ volume.n > 30 * volume.d
                THEN band \o powerheadSuffix
                ELSE band

\* C18: the UV sterilizer entry of getAllRecommendations is the text of the
\* first UV band whose maxFlow is at least 4 x volumeGallons
C18_UVByEstimatedFlow ==
    AllDone =>
        reply.uvSterilizer =
            FirstBandText(uvSterilizerRecommendations,
                          Num(4 * args.volumeGallons.n, args.volumeGallons.d))

CirculationCalled ==
    pc = "done"
        /\ method \in {"getCirculationPumpRecommendation", "getAllRecommendations"}
CirculationReply ==
    IF method = "getAllRecommendations" THEN reply.circulationPump ELSE reply

\* C19: the circulation pump recommendation is the volume band text, with
\* the multiple-units suffix exactly when length > 1.5 x width
C19_MultipleUnitsSuffix ==
    CirculationCalled =>
        LET band == FirstBandText(circulationPumpRecommendations, args.volumeGallons)
            long == 2 * args.length.n * args.width.d > 3 * args.width.n * args.length.d
        IN  CirculationReply = (IF long THEN band \o multipleUnitsSuffix ELSE band)

\* C20: getAllRecommendations returns exactly the eight categories, each a
\* string, and getRecommendation with any other category name returns '--'
C20_EightCategoriesOrPlaceholder ==
    /\ AllDone =>
          /\ DOMAIN reply = Categories
          /\ \A category \in Categories : reply[category] \in STRING
    /\ (pc # "start" /\ GenericCalled /\ args.equipmentType \notin Categories) =>
          (pc = "done" /\ reply = placeholder)

----------------------------------------------------------------------------
(* Properties of DimensionFinder.getAspectRatio and getDimensionRange *)

AspectDone == pc = "done" /\ method = "getAspectRatio"
RangeDone == pc = "done" /\ method = "getDimensionRange"

\* the rules of getAspectRatio in their order, each with whether it matches
\* the arguments of the call; the last one always matches
AspectRules ==
    << [label |-> "Wide", matches |-> args.length > 2 * args.width],
       [label |-> "Deep", matches |-> 2 * args.width > 3 * args.length],
       [label |-> "Tall", matches |-> 5 * args.height > 4 * args.length],
       [label |-> "Long", matches |-> args.length > 2 * args.height],
       [label |-> "Standard", matches |-> TRUE] >>

\* C24: the label is that of the first rule, in the order Wide, Deep, Tall,
\* Long, Standard, that matches: one of the five labels is returned, and no
\* rule before the returned one matches
C24_FirstMatchingRule ==
    AspectDone =>
        \E i \in 1..Len(AspectRules) :
            /\ reply = AspectRules[i].label
            /\ AspectRules[i].matches
            /\ \A j \in 1..(i - 1) : ~AspectRules[j].matches

\* a triple that matches the Wide rule and the Tall rule was labelled Wide
C24_Witness ==
    /\ AspectDone
    /\ AspectRules[1].matches
    /\ AspectRules[3].matches
    /\ reply = "Wide"

\* the step getDimensionRange takes from the value v
StepFrom(v) == IF v < 24 THEN 2 ELSE IF v < 48 THEN 4 ELSE 6

\* C25: the range is empty when min > max; otherwise it starts at min, is
\* strictly increasing, never exceeds max, and each value is its predecessor
\* plus 2 (predecessor below 24), 4 (from 24 up to 47) or 6 (from 48)
C25_RangeSteps ==
    RangeDone =>
        /\ (args.min > args.max) => reply = <<>>
        /\ (args.min <= args.max) => (Len(reply) >= 1 /\ reply[1] = args.min)
        /\ \A i \in 1..Len(reply) : reply[i] <= args.max
        /\ \A i \in 1..(Len(reply) - 1) :
              /\ reply[i] < reply[i + 1]
              /\ reply[i + 1] = reply[i] + StepFrom(reply[i])

\* a range that crosses both step changes: it holds a step of 2, of 4 and of 6
C25_Witness ==
    /\ RangeDone
    /\ \E i \in 1..(Len(reply) - 1) : reply[i + 1] - reply[i] = 2
    /\ \E i \in 1..(Len(reply) - 1) : reply[i] = 24 /\ reply[i + 1] = 28
    /\ \E i \in 1..(Len(reply) - 1) : reply[i] = 48 /\ reply[i + 1] = 54

----------------------------------------------------------------------------
(* Properties of the glass label and of requiresSpecialAttention *)

\* the thickness a label names: the number before "mm"
LabelThickness(description) ==
    LET recs == GlassRecommender_recommendations
    IN  recs[CHOOSE i \in 1..Len(recs) : recs[i].description = description].thickness

\* C26: the thickness named by the label getRecommendation returns does not
\* decrease when the height grows with length and width fixed, nor when the
\* span max(length, width) grows with the height fixed
C26_LabelMonotone ==
    LabelDone =>
        /\ \A height \in Heights :
              height >= args.height =>
                  LabelThickness(GlassRecommender_getRecommendation(
                      args.length, args.width, height)) >= LabelThickness(reply)
        /\ \A length \in Lengths, width \in Widths :
              Larger(length, width) >= Span =>
                  LabelThickness(GlassRecommender_getRecommendation(
                      length, width, args.height)) >= LabelThickness(reply)

AttentionDone == pc = "done" /\ method = "requiresSpecialAttention"

\* C27: requiresSpecialAttention is true exactly when getDetailedRecommendation
\* for the same dimensions gives the professional-consultation safety note
C27_AttentionIffProfessionalNote ==
    /\ AttentionDone =>
          (reply <=> getDetailedRecommendation(args.length, args.width,
                         args.height).safetyNote = professionalNote)
    /\ DetailDone =>
          ((reply.safetyNote = professionalNote)
              <=> requiresSpecialAttention(args.length, args.width, args.height))

\* a shallow tank needs attention for its span alone
C27_Witness ==
    /\ AttentionDone
    /\ args.height <= 24
    /\ Span > 60
    /\ reply = TRUE

----------------------------------------------------------------------------
(* IEEE 754 binary64 arithmetic, as JavaScript numbers compute.            *)
(* A natural number is kept in Limbs pieces of LimbBits bits, the lowest   *)
(* first.  A finite double that is not negative is [m, e], standing for    *)
(* m * 2^e, with m a natural of exactly 53 bits, or zero with e = 0.       *)

LimbBits == 14
Base == 2^LimbBits
Limbs == 8
\* bits of a double's significand
Precision == 53

Wide(n) ==
    [i \in 1..Limbs |->
        IF i = 1 THEN n % Base
        ELSE IF i = 2 THEN (n \div Base) % Base
        ELSE IF i = 3 THEN n \div (Base * Base)
        ELSE 0]

\* the highest limb that is not zero, 0 for the number zero
TopLimb(x) ==
    LET used == {i \in 1..Limbs : x[i] # 0}
    IN  IF used = {} THEN 0 ELSE CHOOSE i \in used : \A j \in used : j <= i

BitLen(x) ==
    LET top == TopLimb(x)
    IN  IF top = 0 THEN 0
        ELSE (top - 1) * LimbBits
             + (CHOOSE k \in 1..LimbBits : 2^(k - 1) <= x[top] /\ x[top] < 2^k)

\* x * 2^k and the whole part of x / 2^k
ShiftLeft(x, k) ==
    LET o == k \div LimbBits
        r == k % LimbBits
    IN  [i \in 1..Limbs |->
            (IF i - o >= 1 THEN (x[i - o] % 2^(LimbBits - r)) * 2^r ELSE 0)
            + (IF i - o - 1 >= 1 THEN x[i - o - 1] \div 2^(LimbBits - r) ELSE 0)]
ShiftRight(x, k) ==
    LET o == k \div LimbBits
        r == k % LimbBits
    IN  [i \in 1..Limbs |->
            (IF i + o <= Limbs THEN x[i + o] \div 2^r ELSE 0)
            + (IF i + o + 1 <= Limbs
               THEN (x[i + o + 1] % 2^r) * 2^(LimbBits - r) ELSE 0)]

\* bit k of x, counted from 0, and whether every bit below bit k is zero
BitAt(x, k) == (x[k \div LimbBits + 1] \div 2^(k % LimbBits)) % 2
LowZero(x, k) ==
    /\ \A i \in 1..Limbs : i <= k \div LimbBits => x[i] = 0
    /\ x[k \div LimbBits + 1] % 2^(k % LimbBits) = 0

Plus(x, y) ==
    LET carry[i \in 0..Limbs] ==
            IF i = 0 THEN 0 ELSE (x[i] + y[i] + carry[i - 1]) \div Base
    IN  [i \in 1..Limbs |-> (x[i] + y[i] + carry[i - 1]) % Base]

\* x - y for x >= y
Minus(x, y) ==
    LET borrow[i \in 0..Limbs] ==
            IF i = 0 THEN 0
            ELSE IF x[i] - y[i] - borrow[i - 1] < 0 THEN 1 ELSE 0
    IN  [i \in 1..Limbs |-> (x[i] - y[i] - borrow[i - 1] + Base) % Base]

AtLeast(x, y) ==
    LET differ == {i \in 1..Limbs : x[i] # y[i]}
    IN  \/ differ = {}
        \/ LET top == CHOOSE i \in differ : \A j \in differ : j <= i
           IN  x[top] > y[top]

\* x * y for x and y below 2^56
Product(x, y) ==
    LET column(k) ==
            LET term(i) == IF k + 1 - i \in 1..4 THEN x[i] * y[k + 1 - i] ELSE 0
            IN  term(1) + term(2) + term(3) + term(4)
        carry[k \in 0..Limbs] ==
            IF k = 0 THEN 0 ELSE (column(k) + carry[k - 1]) \div Base
    IN  [k \in 1..Limbs |-> (column(k) + carry[k - 1]) % Base]

\* the one element of a set of one element; a value bound by
\* v \in {e} is computed once
Only(S) == CHOOSE v \in S : TRUE

Zero == [m |-> Wide(0), e |-> 0]

\* x of len bits rounded to Precision bits, ties to the even significand
Rounded(x, len, e, sticky) ==
    IF len = 0 THEN Zero
    ELSE IF len <= Precision
    THEN [m |-> ShiftLeft(x, Precision - len), e |-> e - (Precision - len)]
    ELSE LET s == len - Precision
             up == /\ BitAt(x, s - 1) = 1
                   /\ \/ ~LowZero(x, s - 1)
                      \/ sticky
                      \/ BitAt(x, s) = 1
         IN  Only({IF BitLen(r) > Precision
                   THEN [m |-> ShiftRight(r, 1), e |-> e + s + 1]
                   ELSE [m |-> r, e |-> e + s] :
                      r \in {IF up THEN Plus(ShiftRight(x, s), Wide(1))
                                   ELSE ShiftRight(x, s)}})

\* the double nearest to x * 2^e; sticky says that the exact value is a
\* little more than x * 2^e
Nearest(x, e, sticky) ==
    Only({Rounded(v, len, e, sticky) : v \in {x}, len \in {BitLen(x)}})

\* a whole number below 2^31 as a double
Double(n) == Nearest(Wide(n), 0, FALSE)

\* a * b
Multiply(a, b) ==
    Only({Nearest(Product(x.m, y.m), x.e + y.e, FALSE) : x \in {a}, y \in {b}})

\* long division: one more bit of the quotient q of the remainder r by d
Bit(s, d) ==
    Only({IF AtLeast(twice, d)
          THEN [r |-> Minus(twice, d), q |-> Plus(more, Wide(1))]
          ELSE [r |-> twice, q |-> more] :
             twice \in {ShiftLeft(s.r, 1)}, more \in {ShiftLeft(s.q, 1)}})
Bits2(s, d) == Only({Bit(v, d) : v \in {Bit(s, d)}})
Bits4(s, d) == Only({Bits2(v, d) : v \in {Bits2(s, d)}})
Bits8(s, d) == Only({Bits4(v, d) : v \in {Bits4(s, d)}})
Bits16(s, d) == Only({Bits8(v, d) : v \in {Bits8(s, d)}})
Bits32(s, d) == Only({Bits16(v, d) : v \in {Bits16(s, d)}})
\* Precision + 1 = 32 + 16 + 4 + 2 bits
QuotientBits(s, d) ==
    Only({Bits2(x, d) : x \in {Only({Bits4(v, d) :
        v \in {Only({Bits16(u, d) : u \in {Bits32(s, d)}})}})}})

\* a / b for b # 0: the quotient's whole bit and Precision + 1 more,
\* then rounded
Divide(a, b) ==
    IF a = Zero THEN Zero
    ELSE Only({Nearest(s.q, x.e - y.e - (Precision + 1), s.r # Wide(0)) :
            s \in {Only({QuotientBits(
                       IF AtLeast(x.m, y.m)
                       THEN [r |-> Minus(x.m, y.m), q |-> Wide(1)]
                       ELSE [r |-> x.m, q |-> Wide(0)], y.m) :
                   x \in {a}, y \in {b}})},
            x \in {a}, y \in {b}})

\* 1 - f for 0 <= f <= 1
OneMinus(f) ==
    Only({IF x = Zero THEN Double(1)
          ELSE Only({Nearest(Minus(one, x.m), x.e, FALSE) :
                        one \in {ShiftLeft(Wide(1), 0 - x.e)}}) :
             x \in {f}})

\* a <= b
DoubleLessOrEqual(a, b) ==
    Only({IF x = Zero THEN TRUE
          ELSE IF y = Zero THEN FALSE
          ELSE x.e < y.e \/ (x.e = y.e /\ AtLeast(y.m, x.m)) :
             x \in {a}, y \in {b}})

\* the gap between lo and hi >= lo in units in the last place of lo,
\* counted up to Far
Far == 1000
Gap(lo, hi) ==
    IF lo = Zero THEN (IF hi = Zero THEN 0 ELSE Far)
    ELSE IF hi.e - lo.e > 1 THEN Far
    ELSE Only({IF gap[1] >= Far \/ \E i \in 2..Limbs : gap[i] # 0
               THEN Far ELSE gap[1] :
                  gap \in {Only({Minus(wide, lo.m) :
                              wide \in {ShiftLeft(hi.m, hi.e - lo.e)}})}})
UlpsApart(a, b) ==
    Only({IF DoubleLessOrEqual(x, y) THEN Gap(x, y) ELSE Gap(y, x) :
             x \in {a}, y \in {b}})

----------------------------------------------------------------------------
(* CONVERSIONS and TankCalculator *)

\* the literals 2.54, 0.264172 and 0.1 denote the doubles nearest to them
INCHES_TO_CM == Divide(Double(254), Double(100))
GALLONS_TO_LITERS == Divide(Double(264172), Double(1000000))
DISPLACEMENT_PERCENT == Divide(Double(1), Double(10))

\* mutant: the width is taken where the height belongs
TankCalculator_calculateVolumeWidthTwice(length, width, height) ==
    LET lengthCm == Multiply(length, INCHES_TO_CM)
        widthCm == Multiply(width, INCHES_TO_CM)
        volumeCm3 == Multiply(Multiply(lengthCm, widthCm), widthCm)
    IN  Divide(volumeCm3, Double(1000))

\* TankCalculator.calculateVolume: liters of a tank measured in inches
TankCalculator_calculateVolume(length, width, height) ==
    LET lengthCm == Multiply(length, INCHES_TO_CM)
        widthCm == Multiply(width, INCHES_TO_CM)
        heightCm == Multiply(height, INCHES_TO_CM)
        volumeCm3 == Multiply(Multiply(lengthCm, widthCm), heightCm)
    IN  Divide(volumeCm3, Double(1000))

\* mutant: the reciprocal constant LITERS_TO_GALLONS = 3.78541 is used
convertToLitersByReciprocal(gallons) ==
    Multiply(gallons, Divide(Double(378541), Double(100000)))

convertToGallons(liters) == Multiply(liters, GALLONS_TO_LITERS)
convertToLiters(gallons) == Divide(gallons, GALLONS_TO_LITERS)

\* mutant: the fraction itself is the factor
adjustForDisplacementKeepsFraction(volumeLiters, displacementPercent) ==
    Multiply(volumeLiters, displacementPercent)

adjustForDisplacement(volumeLiters, displacementPercent) ==
    Multiply(volumeLiters, OneMinus(displacementPercent))

\* adjustForDisplacement with its default parameter
TankCalculator_adjustForDisplacement(volumeLiters, displacementPercent) ==
    adjustForDisplacement(volumeLiters,
        IF displacementPercent = Undefined
        THEN DISPLACEMENT_PERCENT ELSE displacementPercent)

\* DimensionFinder.findDimensions: targetVolumeGallons / 0.264172 for the
\* target, volume * 0.264172 for every candidate
DimensionFinder_targetLiters(gallons) ==
    Divide(gallons, Divide(Double(264172), Double(1000000)))
DimensionFinder_volumeGallons(volume) ==
    Multiply(volume, Divide(Double(264172), Double(1000000)))

\* whole-inch dimensions
Inches == {Double(n) : n \in {10, 11, 18, 21, 33}}
\* volumes in gallons or liters
WholeVolumes == {Double(n) : n \in {20, 25, 50, 61, 63, 100}}
\* geometric volumes in liters
GeometricVolumes ==
    {Zero, Double(1), Double(100),
     TankCalculator_calculateVolume(Double(24), Double(48), Double(24))}
\* 2^-58
Tiny == Divide(Divide(Double(1), Double(2^29)), Double(2^29))
\* displacement fractions in [0, 1); Undefined is the omitted argument
Fractions == {Undefined, Zero, Tiny, DISPLACEMENT_PERCENT, Divide(Double(1), Double(2))}

InitCalc ==
    /\ method = "TankCalculator"
    /\ pc = "start"
    /\ targetVolumeGallons = 0
    /\ constraints = NoConstraints
    /\ maxResults = 0
    /\ results = <<>>
    /\ returned = <<>>
    /\ GlassIdle
    /\ CallIdle
    /\ AppIdle

\* a call of a pure function: its arguments and its result
Computed(name, arguments, result) ==
    /\ method' = name
    /\ args' = arguments
    /\ reply' = result
    /\ pc' = "done"
    /\ UNCHANGED finderVars
    /\ UNCHANGED glassVars
    /\ UNCHANGED appVars

CalculateVolume ==
    /\ pc = "start"
    /\ \E length \in Inches, width \in Inches, height \in Inches :
        Computed("calculateVolume",
                 [length |-> length, width |-> width, height |-> height],
                 TankCalculator_calculateVolume(length, width, height))

ConvertToGallons ==
    /\ pc = "start"
    /\ \E liters \in WholeVolumes :
        Computed("convertToGallons", [liters |-> liters], convertToGallons(liters))

ConvertToLiters ==
    /\ pc = "start"
    /\ \E gallons \in WholeVolumes :
        Computed("convertToLiters", [gallons |-> gallons], convertToLiters(gallons))

\* the conversion of findDimensions' target
TargetLiters ==
    /\ pc = "start"
    /\ \E gallons \in WholeVolumes :
        Computed("targetLiters", [gallons |-> gallons],
                 DimensionFinder_targetLiters(gallons))

AdjustForDisplacement ==
    /\ pc = "start"
    /\ \E volumeLiters \in GeometricVolumes, displacementPercent \in Fractions :
        Computed("adjustForDisplacement",
                 [volumeLiters |-> volumeLiters,
                  displacementPercent |-> displacementPercent],
                 TankCalculator_adjustForDisplacement(volumeLiters,
                                                      displacementPercent))

NextCalc ==
    \/ CalculateVolume
    \/ ConvertToGallons
    \/ ConvertToLiters
    \/ TargetLiters
    \/ AdjustForDisplacement

SpecCalc == InitCalc /\ [][NextCalc]_vars

----------------------------------------------------------------------------
(* AquariumApp: the page's event handlers and the timers they start.       *)
(* One tick of the clock is 100 ms.  A slider's value is kept as its sign  *)
(* (0 or a positive number), which is all the handlers' branches read.     *)

\* user events after which the model stops accepting events
MaxEvents == 3

TickMs == 100
\* setTimeout(..., 300) of debouncedUpdate
DebounceTicks == 300 \div TickMs
\* setTimeout(..., 100) of a preset click
PresetTicks == 100 \div TickMs
\* setTimeout(..., 600) that restores the preset button's style
ButtonTicks == 600 \div TickMs

DimensionSliders == {"width", "length", "height"}
VolumeSliders == {"volumeInput", "waterVolumeInput"}
\* values of a dimension slider: zero or positive
SliderValues == {0, 12}
\* parseFloat of a volume slider's value
VolumeValues == {NaN, Whole(0 - 1), Whole(0), Whole(50)}
UnitSystems == {"imperial", "metric"}
VolumeUnits == {"liters", "gallons"}

\* setTimeout: a timer whose id is not the id of any timer still known
NewTimerId(known) == CHOOSE i \in 1..(Cardinality(known) + 1) : i \notin known
SetTimeout(pending, known, callback, delay) ==
    [id |-> NewTimerId(known \cup {t.id : t \in pending}),
     callback |-> callback, remaining |-> delay]
ClearTimeout(pending, id) == {t \in pending : t.id # id}

\* mutant: the pending timer is not cancelled
debouncedUpdateNoCancel(updateTimeout, pending) ==
    LET timer == SetTimeout(pending, {updateTimeout}, "debounce", DebounceTicks)
    IN  [updateTimeout |-> timer.id, timers |-> pending \cup {timer}]

\* debouncedUpdate: the new value of this.updateTimeout and the timers
\* pending afterwards; 0 stands for null
debouncedUpdate(updateTimeout, pending) ==
    LET cleared == IF updateTimeout # 0
                   THEN ClearTimeout(pending, updateTimeout)
                   ELSE pending
        timer == SetTimeout(cleared, {updateTimeout}, "debounce", DebounceTicks)
    IN  [updateTimeout |-> timer.id, timers |-> cleared \cup {timer}]

\* mutant: the volume sliders are left as they are
updateControlStatesDimensionsOnly(fixedVolumeMode, disabled) ==
    [s \in DOMAIN disabled |->
        IF s \in DimensionSliders THEN fixedVolumeMode ELSE disabled[s]]

\* updateControlStates: the disabled property of every slider; the second
\* pass over '.dimension-controls input' and '.volume-control input' assigns
\* the same values to the inputs of the two groups
updateControlStates(fixedVolumeMode, disabled) ==
    LET byId == [s \in DOMAIN disabled |->
                    IF s \in DimensionSliders THEN fixedVolumeMode
                    ELSE IF s \in VolumeSliders THEN ~fixedVolumeMode
                    ELSE disabled[s]]
    IN  [s \in DOMAIN byId |->
            IF s \in DimensionSliders THEN fixedVolumeMode
            ELSE IF s \in VolumeSliders THEN ~fixedVolumeMode
            ELSE byId[s]]

\* updateCalculations(forceUpdateVolume) as far as the volume displays go:
\* updateVolumeDisplays rewrites them when forced or when the flag is down
updateCalculations(a, forceUpdateVolume) ==
    [forced |-> forceUpdateVolume,
     refreshed |-> forceUpdateVolume \/ ~a.updatingFromVolume]

\* adjustDimensionsForVolume(type, volume): the app, the slider values and
\* the updateCalculations call it ends with, if it gets that far
adjustDimensionsForVolume(a, value, volume, lastUpdate) ==
    IF volume.t = "NaN" \/ LessOrEqual(volume, Whole(0))
    THEN [app |-> a, value |-> value, update |-> lastUpdate]
    ELSE IF \E s \in DimensionSliders : value[s] = 0
    THEN [app |-> a, value |-> value, update |-> lastUpdate]
    ELSE LET b == [a EXCEPT !.updatingFromVolume = FALSE]
         IN  [app |-> b,
              \* clampDimension keeps every new dimension at 25 cm or more
              value |-> [s \in DimensionSliders |-> 12],
              update |-> updateCalculations(b, FALSE)]

\* the state after the constructor and init(): setupCalculationModeToggle
\* has run updateControlStates, init has run updateCalculations()
InitApp ==
    /\ method = "AquariumApp"
    /\ pc = "start"
    /\ targetVolumeGallons = 0
    /\ constraints = NoConstraints
    /\ maxResults = 0
    /\ results = <<>>
    /\ returned = <<>>
    /\ GlassIdle
    /\ CallIdle
    /\ app = [currentUnitSystem |-> "imperial", volumeUnitSystem |-> "liters",
              updateTimeout |-> 0, updatingFromVolume |-> FALSE,
              fixedVolumeMode |-> FALSE]
    /\ \E checked \in BOOLEAN, value \in [DimensionSliders -> SliderValues] :
          dom = [checked |-> checked, value |-> value,
                 disabled |-> updateControlStates(FALSE,
                     [s \in DimensionSliders \cup VolumeSliders |-> FALSE])]
    /\ timers = {}
    /\ log = [handler |-> "init", events |-> 0, burst |-> 0,
              sinceInput |-> 0, updates |-> 0,
              update |-> updateCalculations([updatingFromVolume |-> FALSE], FALSE)]

calculatorVars == <<method, pc, targetVolumeGallons, constraints, maxResults,
                    results, returned, depth, panelSize, thickness, args, reply>>

\* a user event is handled: its name is recorded
Handled(name) == [log EXCEPT !.handler = name, !.events = @ + 1]

\* 'input' on an enabled dimension slider
DimensionInput ==
    /\ log.events < MaxEvents
    /\ \E s \in DimensionSliders, v \in SliderValues :
        /\ ~dom.disabled[s]
        /\ LET d == debouncedUpdate(app.updateTimeout, timers)
           IN  /\ app' = [app EXCEPT !.updatingFromVolume = FALSE,
                                     !.updateTimeout = d.updateTimeout]
               /\ timers' = d.timers
        /\ dom' = [dom EXCEPT !.value[s] = v]
        \* burst: the inputs since the last update the timer made
        /\ log' = [Handled("dimensionInput") EXCEPT
                       !.burst = IF log.updates = 0 THEN @ + 1 ELSE 1,
                       !.sinceInput = 0, !.updates = 0]
    /\ UNCHANGED calculatorVars

\* 'input' on an enabled volume slider (total or water volume)
VolumeInput ==
    /\ log.events < MaxEvents
    /\ \E s \in VolumeSliders, v \in VolumeValues :
        /\ ~dom.disabled[s]
        /\ IF v.t = "NaN"
           THEN /\ log' = Handled("volumeInput")
                /\ UNCHANGED <<app, dom>>
           ELSE LET r == adjustDimensionsForVolume(
                             [app EXCEPT !.updatingFromVolume = TRUE],
                             dom.value, v, log.update)
                IN  /\ app' = r.app
                    /\ dom' = [dom EXCEPT !.value = r.value]
                    /\ log' = [Handled("volumeInput") EXCEPT !.update = r.update]
    /\ UNCHANGED timers
    /\ UNCHANGED calculatorVars

\* 'change' on the fixed-volume-mode checkbox
FixedVolumeModeChange ==
    /\ log.events < MaxEvents
    /\ LET checked == ~dom.checked
       IN  /\ app' = [app EXCEPT !.fixedVolumeMode = checked]
           /\ dom' = [dom EXCEPT !.checked = checked,
                          !.disabled = updateControlStates(checked, dom.disabled)]
    /\ log' = Handled("modeChange")
    /\ UNCHANGED timers
    /\ UNCHANGED calculatorVars

\* 'change' on the volume unit selector
VolumeUnitChange ==
    /\ log.events < MaxEvents
    /\ \E unit \in VolumeUnits :
        /\ unit # app.volumeUnitSystem
        /\ app' = [app EXCEPT !.volumeUnitSystem = unit]
    /\ log' = [Handled("volumeUnitChange") EXCEPT
                   !.update = updateCalculations(app, TRUE)]
    /\ UNCHANGED <<dom, timers>>
    /\ UNCHANGED calculatorVars

\* 'change' on the unit system selector: switchUnitSystem
SwitchUnitSystem ==
    /\ log.events < MaxEvents
    /\ \E newSystem \in UnitSystems :
        /\ newSystem # app.currentUnitSystem
        /\ app' = [app EXCEPT !.currentUnitSystem = newSystem]
    \* updateDimensionRanges clamps every slider to the range's minimum
    /\ dom' = [dom EXCEPT !.value = [s \in DimensionSliders |-> 12]]
    /\ log' = [Handled("unitSystemChange") EXCEPT
                   !.update = updateCalculations(app, TRUE)]
    /\ UNCHANGED timers
    /\ UNCHANGED calculatorVars

\* 'click' on a preset button with valid dimensions
PresetClick ==
    /\ log.events < MaxEvents
    /\ dom' = [dom EXCEPT !.value = [s \in DimensionSliders |-> 12]]
    /\ timers' = timers \cup
           {SetTimeout(timers, {app.updateTimeout}, "preset", PresetTicks)}
    /\ log' = Handled("presetClick")
    /\ UNCHANGED app
    /\ UNCHANGED calculatorVars

\* 100 ms pass; a timer that is due runs before the clock moves on
Tick ==
    /\ timers # {}
    /\ \A t \in timers : t.remaining > 0
    /\ timers' = {[t EXCEPT !.remaining = @ - 1] : t \in timers}
    /\ log' = [log EXCEPT !.sinceInput =
                   IF @ < DebounceTicks THEN @ + 1 ELSE @]
    /\ UNCHANGED <<app, dom>>
    /\ UNCHANGED calculatorVars

\* the callback of a due timer runs
TimerFire ==
    /\ \E t \in timers :
        /\ t.remaining = 0
        /\ IF t.callback = "debounce"
           THEN /\ timers' = timers \ {t}
                /\ log' = [log EXCEPT !.handler = "debounceTimer",
                               !.updates = IF @ < 2 THEN @ + 1 ELSE @,
                               !.update = updateCalculations(app, FALSE)]
           ELSE IF t.callback = "preset"
           THEN /\ timers' = (timers \ {t}) \cup
                       {SetTimeout(timers, {app.updateTimeout},
                                   "button", ButtonTicks)}
                /\ log' = [log EXCEPT !.handler = "presetTimer",
                               !.update = updateCalculations(app, TRUE)]
           ELSE /\ timers' = timers \ {t}
                /\ log' = [log EXCEPT !.handler = "buttonTimer"]
    /\ UNCHANGED <<app, dom>>
    /\ UNCHANGED calculatorVars

NextApp ==
    \/ DimensionInput
    \/ VolumeInput
    \/ FixedVolumeModeChange
    \/ VolumeUnitChange
    \/ SwitchUnitSystem
    \/ PresetClick
    \/ Tick
    \/ TimerFire

SpecApp == InitApp /\ [][NextApp]_vars

\* the event loop keeps running: time passes and due timers run
SpecAppFair == SpecApp /\ WF_vars(Tick) /\ WF_vars(TimerFire)

----------------------------------------------------------------------------
(* TankCalculator properties *)

VolumeDone == method = "calculateVolume" /\ pc = "done"

\* the volume with the arguments in the five other orders
Permuted ==
    {TankCalculator_calculateVolume(args.width, args.length, args.height),
     TankCalculator_calculateVolume(args.height, args.length, args.width),
     TankCalculator_calculateVolume(args.length, args.height, args.width),
     TankCalculator_calculateVolume(args.height, args.width, args.length),
     TankCalculator_calculateVolume(args.width, args.height, args.length)}

\* C21: calculateVolume returns the same number for every permutation of
\* its three arguments.
C21_PermutationInvariant ==
    VolumeDone => \A v \in Permuted : v = reply

\* C21, amended: exchanging length and width leaves the result as it is; any
\* other permutation changes it by at most 3 units in the last place.
C21_PermutationWithinRounding ==
    VolumeDone =>
        /\ TankCalculator_calculateVolume(args.width, args.length, args.height)
               = reply
        /\ \A v \in Permuted : UlpsApart(v, reply) <= 3

\* calculateVolume(11, 21, 33) and calculateVolume(33, 11, 21) differ
C21_Witness ==
    /\ VolumeDone
    /\ args = [length |-> Double(11), width |-> Double(21), height |-> Double(33)]
    /\ TankCalculator_calculateVolume(args.height, args.length, args.width)
           # reply

\* the value a finished conversion gives back when it is undone
ConvertedBack ==
    IF method = "convertToLiters" THEN convertToGallons(reply)
    ELSE IF method = "convertToGallons" THEN convertToLiters(reply)
    ELSE DimensionFinder_volumeGallons(reply)
Converted ==
    /\ pc = "done"
    /\ method \in {"convertToLiters", "convertToGallons", "targetLiters"}
Original == IF method = "convertToGallons" THEN args.liters ELSE args.gallons

\* C22: converting gallons to liters and back, or liters to gallons and
\* back, returns the original volume, in TankCalculator and between
\* DimensionFinder's target conversion and its candidate conversion.
C22_RoundTripExact == Converted => ConvertedBack = Original

\* C22, amended: the round trip returns the original volume or one of the
\* two doubles next to it.
C22_RoundTripWithinOneUlp == Converted => UlpsApart(ConvertedBack, Original) <= 1

\* 25 gallons come back as the double after 25
C22_Witness ==
    /\ Converted
    /\ method = "convertToLiters"
    /\ args.gallons = Double(25)
    /\ ConvertedBack # Original
    /\ UlpsApart(ConvertedBack, Original) = 1

AdjustDone == method = "adjustForDisplacement" /\ pc = "done"
\* the fraction in effect
Fraction ==
    IF args.displacementPercent = Undefined
    THEN DISPLACEMENT_PERCENT ELSE args.displacementPercent

----------------------------------------------------------------------------
(* AquariumApp properties *)

\* C28: whenever a volume-input handler has finished, updatingFromVolume is
\* false again, whatever numeric value was entered, so that every later
\* updateCalculations call that is not forced rewrites the volume displays.
C28_FlagClearedAfterVolumeInput ==
    /\ log.handler = "volumeInput" => ~app.updatingFromVolume
    /\ ~log.update.forced => log.update.refreshed

DebouncePending == {t \in timers : t.callback = "debounce"}

\* the pending update timer is the one the last dimension input started, and
\* the inputs since the last timer-driven update are answered by one update
OneTimerOneUpdate ==
    /\ Cardinality(DebouncePending) <= 1
    /\ \A t \in DebouncePending :
        /\ t.id = app.updateTimeout
        /\ t.remaining = DebounceTicks - log.sinceInput
    /\ IF log.burst > 0
       THEN \/ DebouncePending # {} /\ log.updates = 0
            \/ DebouncePending = {} /\ log.updates = 1
       ELSE DebouncePending = {} /\ log.updates = 0

\* C29: at most one update timer is pending; every dimension input cancels
\* the pending timer and starts a new one of 300 ms, so a burst of inputs
\* less than 300 ms apart is followed by exactly one updateCalculations
\* call, 300 ms after its last input, and that call does happen.
C29_DebouncedUpdate ==
    /\ []OneTimerOneUpdate
    /\ (DebouncePending # {}) ~>
           (DebouncePending = {} /\ log.updates = 1
               /\ log.sinceInput = DebounceTicks)

\* a burst of two inputs 100 ms apart has been answered by its one update
C29_Witness ==
    /\ log.handler = "debounceTimer"
    /\ log.burst >= 2
    /\ log.updates = 1
    /\ log.sinceInput = DebounceTicks
    /\ DebouncePending = {}

\* C30: after init and any sequence of mode toggles the three dimension
\* sliders are enabled exactly when fixedVolumeMode is false, and the two
\* volume sliders exactly when it is true.
C30_SlidersFollowMode ==
    /\ \A s \in DimensionSliders : ~dom.disabled[s] <=> ~app.fixedVolumeMode
    /\ \A s \in VolumeSliders : ~dom.disabled[s] <=> app.fixedVolumeMode

\* the mode has been switched on, off and on again
C30_Witness ==
    /\ log.handler = "modeChange"
    /\ log.events >= 3
    /\ app.fixedVolumeMode
    /\ \A s \in VolumeSliders : ~dom.disabled[s]

====
